---- MODULE Spec2Model ----
(***************************************************************************)
(* Model of the feattle-core registry: the flag records, the in-memory     *)
(* copy of the current values, the persistence port and the reload /       *)
(* update / history protocol of the Feattles trait.                        *)
(***************************************************************************)
EXTENDS Integers, Sequences, FiniteSets, TLC

(***************************************************************************)
(* Bounds                                                                  *)
(***************************************************************************)
\* number of operations (reload / update / history) started in one run
MaxClock == 3

(***************************************************************************)
(* Declared flags: feattles! { struct Config { a: i32, b: i32 = 17 } }     *)
(***************************************************************************)
keys == <<"a", "b">>

KeySet == {keys[i] : i \in 1..Len(keys)}

\* a key that the struct does not declare
UndeclaredKey == "zz"

AllKeys == KeySet \cup {UndeclaredKey}

Default(k) == IF k = "b" THEN 17 ELSE 0

Users == {"alice", "bob"}

Tasks == {1, 2}

\* Option::None
None == [none |-> TRUE]

(***************************************************************************)
(* serde_json::Value, restricted to the kinds the runs use                 *)
(***************************************************************************)
JNum(n) == [kind |-> "Number", num |-> n]

JStr(s) == [kind |-> "String", str |-> s]

I32Max == 2147483647

I32Min == (-I32Max) - 1

\* values that callers pass to update() and that storage may hold
InputValues == {JNum(27), JNum(207), JStr("x")}

\* json_reading::extract_i64
extract_i64(value) ==
    IF value.kind = "Number"
    THEN [ok |-> TRUE, val |-> value.num]
    ELSE [ok |-> FALSE, err |-> "WrongKind"]

\* <i32 as FeattleValue>::try_from_json
try_from_json(value) ==
    LET n == extract_i64(value)
    IN  IF ~n.ok THEN n
        ELSE IF n.val >= I32Min /\ n.val <= I32Max
             THEN [ok |-> TRUE, val |-> n.val]
             ELSE [ok |-> FALSE, err |-> "ParseError"]

\* <i32 as FeattleValue>::as_json
as_json(v) == JNum(v)

\* <i32 as FeattleValue>::overview
overview(v) == ToString(v)

(***************************************************************************)
(* feattle_value.rs: FeattleValue for the supported types                  *)
(***************************************************************************)
\* nesting depth of the container types (Vec, BTreeSet, BTreeMap, Option)
MaxDepth == 2

\* number of items that a Vec, a BTreeSet or a BTreeMap holds at most
MaxItems == 2

\* A 64-bit integer, as serde_json::Number holds it (PosInt(u64) or
\* NegInt(i64)): a sign and a magnitude of four 16-bit limbs, the most
\* significant first.
WideInt(neg, mag) == [neg |-> neg, mag |-> mag]

MagLess(a, b) ==
    \E i \in 1..4 : a[i] < b[i] /\ \A j \in 1..(i - 1) : a[j] = b[j]

\* x <= y
WideLeq(x, y) ==
    IF x.neg # y.neg THEN x.neg
    ELSE IF x.neg THEN ~MagLess(x.mag, y.mag)
    ELSE ~MagLess(y.mag, x.mag)

\* impl_try_from_value_i64! {u8} ... {isize}; usize and isize of a 64-bit target
IntTypes ==
    {"u8", "i8", "u16", "i16", "u32", "i32", "u64", "i64", "usize", "isize"}

\* <$kind>::MAX
IntMax(ty) ==
    WideInt(FALSE,
        CASE ty = "u8" -> <<0, 0, 0, 255>>
          [] ty = "i8" -> <<0, 0, 0, 127>>
          [] ty = "u16" -> <<0, 0, 0, 65535>>
          [] ty = "i16" -> <<0, 0, 0, 32767>>
          [] ty = "u32" -> <<0, 0, 65535, 65535>>
          [] ty = "i32" -> <<0, 0, 32767, 65535>>
          [] ty \in {"u64", "usize"} -> <<65535, 65535, 65535, 65535>>
          [] ty \in {"i64", "isize"} -> <<32767, 65535, 65535, 65535>>)

\* <$kind>::MIN
IntMin(ty) ==
    CASE ty = "i8" -> WideInt(TRUE, <<0, 0, 0, 128>>)
      [] ty = "i16" -> WideInt(TRUE, <<0, 0, 0, 32768>>)
      [] ty = "i32" -> WideInt(TRUE, <<0, 0, 32768, 0>>)
      [] ty \in {"i64", "isize"} -> WideInt(TRUE, <<32768, 0, 0, 0>>)
      [] OTHER -> WideInt(FALSE, <<0, 0, 0, 0>>)

\* feattle_enum! { enum Choices { Red, Green, Blue } }
Variants == {"Red", "Green", "Blue"}

\* the types: bool, the integers, String, an enum, and the containers of them
BoolType == [kind |-> "bool"]

IntType(ty) == [kind |-> "int", name |-> ty]

StringType == [kind |-> "string"]

EnumType == [kind |-> "enum"]

VecType(T) == [kind |-> "vec", of |-> T]

SetType(T) == [kind |-> "set", of |-> T]

MapType(K, V) == [kind |-> "map", key |-> K, of |-> V]

OptionType(T) == [kind |-> "option", of |-> T]

F32Type == [kind |-> "f32"]

F64Type == [kind |-> "f64"]

BaseTypes ==
    {BoolType, StringType, EnumType} \cup {IntType(ty) : ty \in IntTypes}

\* K: FeattleStringValue + Ord
KeyTypes == {StringType, EnumType}

RECURSIVE TypesOf(_)
TypesOf(depth) ==
    IF depth = 0 THEN BaseTypes
    ELSE LET S == TypesOf(depth - 1)
         IN  S \cup {VecType(T) : T \in S} \cup {SetType(T) : T \in S}
               \cup {OptionType(T) : T \in S}
               \cup {MapType(K, V) : K \in KeyTypes, V \in S}

\* values of the types: bool [b], integers as WideInt, String [s], enum
\* [variant], Vec [list], BTreeSet [set], BTreeMap [map], Option None / [some]
Some(v) == [some |-> v]

RECURSIVE Values(_)
Values(T) ==
    CASE T.kind = "bool" -> {[b |-> TRUE], [b |-> FALSE]}
      [] T.kind = "int" ->
            {IntMin(T.name), IntMax(T.name), WideInt(FALSE, <<0, 0, 0, 17>>)}
      [] T.kind = "string" -> {[s |-> ""], [s |-> "Red"]}
      [] T.kind = "enum" -> {[variant |-> "Red"], [variant |-> "Blue"]}
      [] T.kind = "vec" ->
            {[list |-> l] :
                l \in UNION {[1..n -> Values(T.of)] : n \in 0..MaxItems}}
      [] T.kind = "set" ->
            {[set |-> s] :
                s \in {x \in SUBSET Values(T.of) : Cardinality(x) <= MaxItems}}
      [] T.kind = "map" ->
            {[map |-> f] :
                f \in UNION {[D -> Values(T.of)] :
                    D \in {x \in SUBSET Values(T.key) :
                              Cardinality(x) <= MaxItems}}}
      [] T.kind = "option" -> {None} \cup {Some(v) : v \in Values(T.of)}

\* serde_json::Value of the other kinds
JNull == [kind |-> "Null"]

JBool(b) == [kind |-> "Bool", b |-> b]

JArray(items) == [kind |-> "Array", items |-> items]

JObject(fields) == [kind |-> "Object", fields |-> fields]

\* A finite f64 or f32: zero, or (1 + (hi * 2^29 + lo) / 2^52) * 2^exp with
\* hi the 23 leading bits of the fraction and lo its other 29 bits (an f32
\* has lo = 0 and exp >= -149); or an infinity.
FloatZero(neg) == [class |-> "zero", neg |-> neg]

FloatInf(neg) == [class |-> "inf", neg |-> neg]

Float(neg, exp, hi, lo) ==
    [class |-> "normal", neg |-> neg, exp |-> exp, hi |-> hi, lo |-> lo]

\* serde_json::Number of the variant Float(f64); JNum is PosInt or NegInt
JFloat(f) == [kind |-> "Number", float |-> f]

IsFloat(value) == "float" \in DOMAIN value

\* f32 as f64: every f32 is an f64
f32_as_f64(x) == x

\* Result::Ok and the two variants of FromJsonError
Ok(v) == [ok |-> TRUE, val |-> v]

WrongKind == [ok |-> FALSE, err |-> "WrongKind"]

ParseError == [ok |-> FALSE, err |-> "ParseError"]

\* ToString and FromStr of the string types (String; feattle_enum!)
to_string(T, v) == IF T.kind = "enum" THEN v.variant ELSE v.s

from_str(T, s) ==
    IF T.kind = "enum"
    THEN IF s \in Variants THEN Ok([variant |-> s]) ELSE ParseError
    ELSE Ok([s |-> s])

\* the variants in the order of their declaration, which #[derive(Ord)] follows
VariantOrder == <<"Red", "Green", "Blue">>

\* the strings of the runs in the order of str's Ord (bytewise)
StringOrder == <<"", "Black", "Blue", "Green", "Red", "x">>

\* the position of x in the sequence l
IndexIn(l, x) == CHOOSE i \in DOMAIN l : l[i] = x

\* Ord of the value types (x <= y), and the items of a BTreeSet and the keys
\* of a BTreeMap in the order of their iterators
RECURSIVE Leq(_, _, _), SetToSeq(_, _)
LexLeq(T, a, b) ==
    \/ /\ Len(a) <= Len(b)
       /\ \A i \in 1..Len(a) : a[i] = b[i]
    \/ \E i \in 1..Len(a) :
           /\ i <= Len(b)
           /\ \A j \in 1..(i - 1) : a[j] = b[j]
           /\ a[i] # b[i]
           /\ Leq(T, a[i], b[i])

Leq(T, x, y) ==
    CASE T.kind = "bool" -> x.b => y.b
      [] T.kind = "int" -> WideLeq(x, y)
      [] T.kind = "string" -> IndexIn(StringOrder, x.s) <= IndexIn(StringOrder, y.s)
      [] T.kind = "enum" ->
            IndexIn(VariantOrder, x.variant) <= IndexIn(VariantOrder, y.variant)
      [] T.kind = "vec" -> LexLeq(T.of, x.list, y.list)
      [] T.kind = "set" -> LexLeq(T.of, SetToSeq(T.of, x.set), SetToSeq(T.of, y.set))
      [] T.kind = "map" ->
            LET kx == SetToSeq(T.key, DOMAIN x.map)
                ky == SetToSeq(T.key, DOMAIN y.map)
                Pair == [kind |-> "pair", key |-> T.key, of |-> T.of]
            IN  LexLeq(Pair, [i \in DOMAIN kx |-> <<kx[i], x.map[kx[i]]>>],
                             [i \in DOMAIN ky |-> <<ky[i], y.map[ky[i]]>>])
      [] T.kind = "pair" ->
            IF x[1] # y[1] THEN Leq(T.key, x[1], y[1]) ELSE Leq(T.of, x[2], y[2])
      [] T.kind = "option" ->
            \/ x = None
            \/ y # None /\ Leq(T.of, x.some, y.some)

SetToSeq(T, s) ==
    CHOOSE l \in [1..Cardinality(s) -> s] :
        \A i, j \in DOMAIN l : i < j => (l[i] # l[j] /\ Leq(T, l[i], l[j]))

\* FeattleValue::as_json
RECURSIVE FeattleValue_as_json(_, _)
FeattleValue_as_json(T, v) ==
    CASE T.kind = "bool" -> JBool(v.b)
      [] T.kind = "int" -> JNum(v)
      [] T.kind = "f32" -> JFloat(f32_as_f64(v))
      [] T.kind = "f64" -> JFloat(v)
      [] T.kind \in {"string", "enum"} -> JStr(to_string(T, v))
      [] T.kind = "vec" ->
            JArray([i \in 1..Len(v.list) |->
                       FeattleValue_as_json(T.of, v.list[i])])
      [] T.kind = "set" ->
            LET l == SetToSeq(T.of, v.set)
            IN  JArray([i \in 1..Len(l) |-> FeattleValue_as_json(T.of, l[i])])
      [] T.kind = "map" ->
            JObject([name \in {to_string(T.key, k) : k \in DOMAIN v.map} |->
                LET k == CHOOSE k \in DOMAIN v.map : to_string(T.key, k) = name
                IN  FeattleValue_as_json(T.of, v.map[k])])
      [] T.kind = "option" ->
            IF v = None THEN JNull ELSE FeattleValue_as_json(T.of, v.some)

\* serde_json::Number::as_i64 behind json_reading::extract_i64: a PosInt
\* above i64::MAX is no i64, and neither is any Float
extract_i64_wide(value) ==
    IF value.kind # "Number" THEN WrongKind
    ELSE IF IsFloat(value) THEN WrongKind
    ELSE IF value.num.neg \/ WideLeq(value.num, IntMax("i64"))
         THEN Ok(value.num)
         ELSE WrongKind

\* the bits of a 64-bit magnitude, the most significant first, and the
\* number that the bits i..j spell (a bit after the 64th is 0)
Bits64(mag) ==
    [i \in 1..64 |-> (mag[((i - 1) \div 16) + 1] \div 2^(15 - ((i - 1) % 16))) % 2]

RECURSIVE BitVal(_, _, _)
BitVal(bits, i, j) ==
    IF i > j THEN 0
    ELSE 2 * BitVal(bits, i, j - 1) + (IF j <= 64 THEN bits[j] ELSE 0)

\* the float after (exp, hi, lo) in magnitude, when `up`; else that one
FloatRound(neg, exp, hi, lo, up) ==
    IF ~up THEN Float(neg, exp, hi, lo)
    ELSE IF lo + 1 < 2^29 THEN Float(neg, exp, hi, lo + 1)
    ELSE IF hi + 1 < 2^23 THEN Float(neg, exp, hi + 1, 0)
    ELSE Float(neg, exp + 1, 0, 0)

\* u64 as f64, i64 as f64: the nearest f64, ties to even
int_as_f64(n) ==
    LET bits == Bits64(n.mag)
    IN  IF \A i \in 1..64 : bits[i] = 0 THEN FloatZero(FALSE)
        ELSE LET top == CHOOSE i \in 1..64 :
                            bits[i] = 1 /\ \A j \in 1..(i - 1) : bits[j] = 0
                 hi == BitVal(bits, top + 1, top + 23)
                 lo == BitVal(bits, top + 24, top + 52)
                 \* the bits that do not fit: at most 11 of them
                 cut == 64 - (top + 52)
                 rest == BitVal(bits, top + 53, 64)
                 up == /\ cut > 0
                       /\ \/ rest > 2^(cut - 1)
                          \/ rest = 2^(cut - 1) /\ lo % 2 = 1
             IN  FloatRound(n.neg, 64 - top, hi, lo, up)

\* serde_json::Number::as_f64 behind json_reading::extract_f64
extract_f64(value) ==
    IF value.kind # "Number" THEN WrongKind
    ELSE IF IsFloat(value) THEN Ok(value.float)
    ELSE Ok(int_as_f64(value.num))

\* f64 as f32: the nearest f32, ties to even; an infinity when above f32::MAX
f64_as_f32(x) ==
    IF x.class # "normal" THEN x
    ELSE IF x.exp >= -126
    THEN LET up == x.lo > 2^28 \/ (x.lo = 2^28 /\ x.hi % 2 = 1)
             r == FloatRound(x.neg, x.exp, x.hi, 2^29 - 1, up)
             n == IF up THEN r ELSE Float(x.neg, x.exp, x.hi, 0)
         IN  IF n.exp > 127 THEN FloatInf(x.neg) ELSE n
    ELSE LET s == -126 - x.exp
         IN  IF s > 24 THEN FloatZero(x.neg)
             ELSE LET sig == 2^23 + x.hi
                      keep == sig \div 2^s
                      rem == sig % 2^s
                      half == 2^(s - 1)
                      up == \/ rem > half
                            \/ rem = half /\ x.lo > 0
                            \/ rem = half /\ x.lo = 0 /\ keep % 2 = 1
                      \* the f32 is k * 2^-149
                      k == keep + (IF up THEN 1 ELSE 0)
                  IN  IF k = 0 THEN FloatZero(x.neg)
                      ELSE LET p == CHOOSE q \in 0..23 : 2^q <= k /\ k < 2^(q + 1)
                           IN  Float(x.neg, p - 149, (k - 2^p) * 2^(23 - p), 0)

\* == of two floats: the two zeros are equal
FloatEq(x, y) == (x.class = "zero" /\ y.class = "zero") \/ x = y

\* json_reading::extract_bool, extract_str, extract_array, extract_object
extract_bool(value) ==
    IF value.kind = "Bool" THEN Ok([b |-> value.b]) ELSE WrongKind

extract_str(value) ==
    IF value.kind = "String" THEN Ok(value.str) ELSE WrongKind

extract_array(value) ==
    IF value.kind = "Array" THEN Ok(value.items) ELSE WrongKind

extract_object(value) ==
    IF value.kind = "Object" THEN Ok(value.fields) ELSE WrongKind

\* (variant) the conversion reports a value out of range as a wrong kind
try_intoWrongKind(ty, n) ==
    IF WideLeq(IntMin(ty), n) /\ WideLeq(n, IntMax(ty)) THEN Ok(n)
    ELSE WrongKind

\* i64::try_into::<$kind>
try_into(ty, n) ==
    IF WideLeq(IntMin(ty), n) /\ WideLeq(n, IntMax(ty)) THEN Ok(n)
    ELSE ParseError

\* the first error among the results of the items, if any (the `?` in the loops)
FirstError(rs) ==
    LET i == CHOOSE i \in DOMAIN rs :
                 ~rs[i].ok /\ \A j \in DOMAIN rs : j < i => rs[j].ok
    IN  rs[i]

\* FeattleValue::try_from_json
RECURSIVE FeattleValue_try_from_json(_, _)
FeattleValue_try_from_json(T, value) ==
    CASE T.kind = "bool" -> extract_bool(value)
      [] T.kind = "int" ->
            LET n == extract_i64_wide(value)
            IN  IF n.ok THEN try_into(T.name, n.val) ELSE n
      [] T.kind = "f32" ->
            LET n_64 == extract_f64(value)
            IN  IF ~n_64.ok THEN n_64
                ELSE LET n_32 == f64_as_f32(n_64.val)
                     IN  IF ~FloatEq(n_64.val, f32_as_f64(n_32)) THEN WrongKind
                         ELSE Ok(n_32)
      [] T.kind = "f64" -> extract_f64(value)
      [] T.kind \in {"string", "enum"} ->
            LET s == extract_str(value)
            IN  IF s.ok THEN from_str(T, s.val) ELSE s
      [] T.kind \in {"vec", "set"} ->
            LET a == extract_array(value)
            IN  IF ~a.ok THEN a
                ELSE LET rs == [i \in 1..Len(a.val) |->
                                   FeattleValue_try_from_json(T.of, a.val[i])]
                     IN  IF \E i \in DOMAIN rs : ~rs[i].ok THEN FirstError(rs)
                         ELSE IF T.kind = "vec"
                              THEN Ok([list |-> [i \in DOMAIN rs |-> rs[i].val]])
                              ELSE Ok([set |-> {rs[i].val : i \in DOMAIN rs}])
      [] T.kind = "map" ->
            LET o == extract_object(value)
            IN  IF ~o.ok THEN o
                ELSE LET \* serde_json::Map iterates in the order of the names
                         names == SetToSeq(StringType,
                                      {[s |-> name] : name \in DOMAIN o.val})
                         ks == [i \in DOMAIN names |-> from_str(T.key, names[i].s)]
                         vs == [i \in DOMAIN names |->
                                   FeattleValue_try_from_json(T.of,
                                       o.val[names[i].s])]
                         rs == [i \in DOMAIN names |->
                                   IF ~ks[i].ok THEN ks[i] ELSE vs[i]]
                     IN  IF \E i \in DOMAIN rs : ~rs[i].ok THEN FirstError(rs)
                         ELSE Ok([map |->
                                  [k \in {ks[i].val : i \in DOMAIN names} |->
                                      \* a later insert of an equal key wins
                                      vs[CHOOSE i \in DOMAIN names :
                                             /\ ks[i].val = k
                                             /\ \A j \in DOMAIN names :
                                                    ks[j].val = k => j <= i].val]])
      [] T.kind = "option" ->
            IF value.kind = "Null" THEN Ok(None)
            ELSE LET r == FeattleValue_try_from_json(T.of, value)
                 IN  IF r.ok THEN Ok(Some(r.val)) ELSE r

\* <$kind as ToString>::to_string of an integer: its decimal digits
Digits == <<"0", "1", "2", "3", "4", "5", "6", "7", "8", "9">>

\* the 64-bit magnitude divided by ten, and the remainder, limb by limb
DivMod10(mag) ==
    LET r1 == mag[1] % 10
        r2 == (r1 * 65536 + mag[2]) % 10
        r3 == (r2 * 65536 + mag[3]) % 10
    IN  [quot |-> <<mag[1] \div 10, (r1 * 65536 + mag[2]) \div 10,
                    (r2 * 65536 + mag[3]) \div 10, (r3 * 65536 + mag[4]) \div 10>>,
         rem |-> (r3 * 65536 + mag[4]) % 10]

RECURSIVE Decimal(_)
Decimal(mag) ==
    IF mag = <<0, 0, 0, 0>> THEN ""
    ELSE Decimal(DivMod10(mag).quot) \o Digits[DivMod10(mag).rem + 1]

int_to_string(n) ==
    IF n.mag = <<0, 0, 0, 0>> THEN "0"
    ELSE (IF n.neg THEN "-" ELSE "") \o Decimal(n.mag)

\* const MAX_ITEMS in iter_overview
MAX_ITEMS == 3

\* FeattleValue::overview of bool, the integers, the string types, Vec,
\* BTreeSet and Option, and iter_overview: the loop from the item at
\* position i (counted from 1) on, with the text written so far
RECURSIVE FeattleValue_overview(_, _), iter_overview_from(_, _, _, _)
iter_overview_fromNoCount(T, items, i, text) ==
    IF i > Len(items) THEN text
    ELSE IF i - 1 = MAX_ITEMS
    THEN text \o ", ... " \o ToString(Len(items) - i) \o " more"
    ELSE iter_overview_from(T, items, i + 1,
             text \o (IF i - 1 > 0 THEN ", " ELSE "")
                  \o FeattleValue_overview(T, items[i]))

iter_overview_from(T, items, i, text) ==
    IF i > Len(items) THEN text
    ELSE IF i - 1 = MAX_ITEMS
    \* iter.count() + 1: the items after this one, and this one
    THEN text \o ", ... " \o ToString((Len(items) - i) + 1) \o " more"
    ELSE iter_overview_from(T, items, i + 1,
             text \o (IF i - 1 > 0 THEN ", " ELSE "")
                  \o FeattleValue_overview(T, items[i]))

iter_overview(T, items) == iter_overview_from(T, items, 1, "")

FeattleValue_overview(T, v) ==
    CASE T.kind = "bool" -> IF v.b THEN "true" ELSE "false"
      [] T.kind = "int" -> int_to_string(v)
      [] T.kind \in {"string", "enum"} -> to_string(T, v)
      [] T.kind = "vec" -> "[" \o iter_overview(T.of, v.list) \o "]"
      [] T.kind = "set" -> "[" \o iter_overview(T.of, SetToSeq(T.of, v.set)) \o "]"
      [] T.kind = "option" ->
            IF v = None THEN "None"
            ELSE "Some(" \o FeattleValue_overview(T.of, v.some) \o ")"

(***************************************************************************)
(* persist.rs data                                                         *)
(***************************************************************************)
CurrentValue(at, by, value) ==
    [modified_at |-> at, modified_by |-> by, value |-> value]

HistoryEntry(value, ov, at, by) ==
    [value |-> value, value_overview |-> ov, modified_at |-> at, modified_by |-> by]

\* BTreeMap<String, CurrentValue>::default()
EmptyFeattles == [k \in AllKeys |-> None]

CurrentValues(version, date, feattles) ==
    [version |-> version, date |-> date, feattles |-> feattles]

\* ValueHistory::default()
EmptyHistory == [entries |-> <<>>]

\* Option<ValueHistory>::unwrap_or_default
unwrap_or_default(h) == IF h = None THEN EmptyHistory ELSE h

(***************************************************************************)
(* last_reload.rs                                                          *)
(***************************************************************************)
Never == [tag |-> "Never"]

NoData(reload_date) == [tag |-> "NoData", reload_date |-> reload_date]

Data(reload_date, version, version_date) ==
    [tag |-> "Data", reload_date |-> reload_date, version |-> version,
     version_date |-> version_date]

(***************************************************************************)
(* __internal.rs: Feattle<T>                                               *)
(***************************************************************************)
\* Feattle::new
FeattleNew(k) == [value |-> Default(k), current_value |-> None]

\* Feattle::definition (the fields that depend on the record's state)
FeattleDefinition(k, f) ==
    [key |-> k,
     value |-> as_json(f.value),
     value_overview |-> overview(f.value),
     default |-> as_json(Default(k)),
     modified_at |-> IF f.current_value = None THEN None
                     ELSE [some |-> f.current_value.modified_at],
     modified_by |-> IF f.current_value = None THEN None
                     ELSE [some |-> f.current_value.modified_by]]

\* FeattleUpdate whose None branch drops the provenance and keeps the value
FeattleUpdateKeepsValue(k, f, value) ==
    LET old_value == f.current_value
        replaced == [f EXCEPT !.current_value = value]
    IN  IF value = None
        THEN [ok |-> TRUE, old |-> old_value, feattle |-> replaced]
        ELSE LET parsed == try_from_json(value.value)
             IN  IF parsed.ok
                 THEN [ok |-> TRUE, old |-> old_value,
                       feattle |-> [replaced EXCEPT !.value = parsed.val]]
                 ELSE [ok |-> FALSE, old |-> None, feattle |-> replaced]

\* Feattle::update: the entry is stored first, then the value is parsed
FeattleUpdate(k, f, value) ==
    LET old_value == f.current_value
        replaced == [f EXCEPT !.current_value = value]
    IN  IF value = None
        THEN [ok |-> TRUE, old |-> old_value,
              feattle |-> [replaced EXCEPT !.value = Default(k)]]
        ELSE LET parsed == try_from_json(value.value)
             IN  IF parsed.ok
                 THEN [ok |-> TRUE, old |-> old_value,
                       feattle |-> [replaced EXCEPT !.value = parsed.val]]
                 ELSE [ok |-> FALSE, old |-> None, feattle |-> replaced]

\* try_update whose match sends every key to the first declared flag
try_updateFirstKey(fs, k, value) ==
    LET r == FeattleUpdate(keys[1], fs[keys[1]], value)
    IN  [ok |-> r.ok, old |-> r.old, fs |-> [fs EXCEPT ![keys[1]] = r.feattle]]

\* FeattlesStruct::try_update generated by feattles!: dispatch on the key
try_update(fs, k, value) ==
    LET r == FeattleUpdate(k, fs[k], value)
    IN  [ok |-> r.ok, old |-> r.old, fs |-> [fs EXCEPT ![k] = r.feattle]]

\* definition() whose match lacks the arm of the last declared flag
definitionFirstKeys(fs, key) ==
    IF \E i \in 1..(Len(keys) - 1) : keys[i] = key
    THEN [some |-> FeattleDefinition(key, fs[key])]
    ELSE None

\* Feattles::definition generated by feattles!: one match arm per declared
\* key, None for any other key
definition(fs, key) ==
    IF key \in KeySet
    THEN [some |-> FeattleDefinition(key, fs[key])]
    ELSE None

\* Feattles::definitions: definition(key) of each key of keys(), in their order
definitions(fs) == [i \in 1..Len(keys) |-> definition(fs, keys[i]).some]

(***************************************************************************)
(* State                                                                   *)
(***************************************************************************)
VARIABLES
    feattles_struct,   \* InnerFeattles.feattles_struct: key -> Feattle
    last_reload,       \* InnerFeattles.last_reload
    current_values,    \* InnerFeattles.current_values: Option<CurrentValues>
    stored_current,    \* persistence: the saved current values, if any
    stored_history,    \* persistence: key -> Option<ValueHistory>
    now,               \* the clock read by Utc::now()
    task               \* the calls in progress, one slot per task

vars == <<feattles_struct, last_reload, current_values, stored_current,
          stored_history, now, task>>

\* what definition() and the accessors can observe, with the port's content
Observed ==
    [feattles_struct |-> feattles_struct, last_reload |-> last_reload,
     current_values |-> current_values, stored_current |-> stored_current,
     stored_history |-> stored_history]

\* the last call that returned: what it was asked and what it answered
NoCall == [op |-> "none", key |-> "", new_value |-> None, result |-> "none"]

\* a free slot. `calls` and `failed` list the port calls the call in progress
\* has made and those of them that failed; `pre` is what was observable when
\* the call started; `prev` is the call that returned last and `last_update`
\* the entry written by the last update() that returned Ok.
IdleTask ==
    [pc |-> "idle", op |-> "none", key |-> "", value |-> None, who |-> "",
     new_value |-> None, new_values |-> None, old_value |-> None,
     old_history |-> EmptyHistory, new_history |-> EmptyHistory,
     loaded |-> None, result |-> "none", calls |-> <<>>, failed |-> <<>>,
     pre |-> None, prev |-> NoCall, last_update |-> None]

\* snapshots that storage may hold when the process starts
InitialSnapshots ==
    {None,
     CurrentValues(1, 0, [EmptyFeattles EXCEPT
         !["a"] = CurrentValue(0, "alice", JNum(27))]),
     CurrentValues(2, 0, [EmptyFeattles EXCEPT
         !["a"] = CurrentValue(0, "bob", JStr("x")),
         !["b"] = CurrentValue(0, "alice", JNum(207)),
         ![UndeclaredKey] = CurrentValue(0, "bob", JNum(27))])}

\* Feattles::new + FeattlesImpl::new
Init ==
    /\ feattles_struct = [k \in KeySet |-> FeattleNew(k)]
    /\ last_reload = Never
    /\ current_values = None
    /\ stored_current \in InitialSnapshots
    /\ stored_history = [k \in AllKeys |-> None]
    /\ now = 0
    /\ task = [t \in Tasks |-> IdleTask]

(***************************************************************************)
(* Helpers for the calls in progress                                       *)
(***************************************************************************)
\* a call starts in slot t
Started(t, op) ==
    [IdleTask EXCEPT !.op = op, !.pre = Observed, !.prev = task[t].prev,
                     !.last_update = task[t].last_update]

\* the call returns `result` to its caller
Finish(tk, result) == [tk EXCEPT !.pc = "done", !.result = result]

\* one more call to the persistence port, which succeeds or fails
Called(tk, name, ok) ==
    [tk EXCEPT !.calls = Append(@, name),
               !.failed = IF ok THEN @ ELSE Append(@, name)]

(***************************************************************************)
(* Feattles::reload                                                        *)
(***************************************************************************)
\* ReloadKeys with a loop that stops at the first entry that fails to parse
RECURSIVE ReloadKeysAbort(_, _, _)
ReloadKeysAbort(fs, i, snapshot) ==
    IF i > Len(keys) THEN fs
    ELSE LET r == try_update(fs, keys[i], snapshot.feattles[keys[i]])
         IN  IF r.ok THEN ReloadKeysAbort(r.fs, i + 1, snapshot) ELSE r.fs

\* the loop `for &key in self.keys()` of reload: errors are logged, not returned
RECURSIVE ReloadKeys(_, _, _)
ReloadKeys(fs, i, snapshot) ==
    IF i > Len(keys) THEN fs
    ELSE LET key == keys[i]
             value == snapshot.feattles[key]
         IN  ReloadKeys(try_update(fs, key, value).fs, i + 1, snapshot)

\* ReloadLoadCurrent that records the reload before the load has succeeded
ReloadLoadCurrentRecordsFirst(t) ==
    /\ task[t].pc = "idle"
    /\ now < MaxClock
    /\ now' = now + 1
    /\ last_reload' = NoData(now')
    /\ \E ok \in BOOLEAN :
         LET tk == Called(Started(t, "reload"), "load_current", ok)
         IN  task' = [task EXCEPT ![t] =
                 IF ok
                 THEN [tk EXCEPT !.pc = "r_apply", !.loaded = stored_current]
                 ELSE Finish(tk, "PortError")]
    /\ UNCHANGED <<feattles_struct, current_values, stored_current,
                   stored_history>>

\* reload(), up to the end of `self.persistence().load_current().await?`
ReloadLoadCurrent(t) ==
    /\ task[t].pc = "idle"
    /\ now < MaxClock
    /\ now' = now + 1
    /\ \E ok \in BOOLEAN :
         LET tk == Called(Started(t, "reload"), "load_current", ok)
         IN  task' = [task EXCEPT ![t] =
                 IF ok
                 THEN [tk EXCEPT !.pc = "r_apply", !.loaded = stored_current]
                 ELSE Finish(tk, "PortError")]
    /\ UNCHANGED <<feattles_struct, last_reload, current_values,
                   stored_current, stored_history>>

\* ReloadApply that keeps only the entries of the declared keys
ReloadApplyDeclaredOnly(t) ==
    /\ task[t].pc = "r_apply"
    /\ LET loaded == task[t].loaded
       IN  IF loaded = None
           THEN /\ last_reload' = NoData(now)
                /\ current_values' = CurrentValues(0, now, EmptyFeattles)
                /\ UNCHANGED feattles_struct
           ELSE /\ last_reload' = Data(now, loaded.version, loaded.date)
                /\ feattles_struct' = ReloadKeys(feattles_struct, 1, loaded)
                /\ current_values' =
                       [loaded EXCEPT !.feattles =
                           [k \in AllKeys |->
                               IF k \in KeySet THEN loaded.feattles[k] ELSE None]]
    /\ task' = [task EXCEPT ![t] = Finish(@, "Ok")]
    /\ UNCHANGED <<stored_current, stored_history, now>>

\* ReloadApply that records the reload only when a snapshot was loaded
ReloadApplyRecordsDataOnly(t) ==
    /\ task[t].pc = "r_apply"
    /\ LET loaded == task[t].loaded
       IN  IF loaded = None
           THEN /\ current_values' = CurrentValues(0, now, EmptyFeattles)
                /\ UNCHANGED <<feattles_struct, last_reload>>
           ELSE /\ last_reload' = Data(now, loaded.version, loaded.date)
                /\ feattles_struct' = ReloadKeys(feattles_struct, 1, loaded)
                /\ current_values' = loaded
    /\ task' = [task EXCEPT ![t] = Finish(@, "Ok")]
    /\ UNCHANGED <<stored_current, stored_history, now>>

\* reload(), the section under the write lock
ReloadApply(t) ==
    /\ task[t].pc = "r_apply"
    /\ LET loaded == task[t].loaded
       IN  IF loaded = None
           THEN /\ last_reload' = NoData(now)
                /\ current_values' = CurrentValues(0, now, EmptyFeattles)
                /\ UNCHANGED feattles_struct
           ELSE /\ last_reload' = Data(now, loaded.version, loaded.date)
                /\ feattles_struct' = ReloadKeys(feattles_struct, 1, loaded)
                /\ current_values' = loaded
    /\ task' = [task EXCEPT ![t] = Finish(@, "Ok")]
    /\ UNCHANGED <<stored_current, stored_history, now>>

(***************************************************************************)
(* Feattles::update                                                        *)
(***************************************************************************)
\* NewValues that bumps the version but forgets the new entry
NewValuesNoInsert(cv, key, new_value) ==
    [cv EXCEPT !.version = @ + 1]

\* update(): `new_values`, the clone of the current values with the new entry
NewValues(cv, key, new_value) ==
    [cv EXCEPT !.feattles[key] = new_value, !.version = @ + 1]

\* UpdateStep1 that parses and applies the value before looking for a snapshot
UpdateStep1ParseFirst(cv, fs, key, new_value) ==
    LET r == try_update(fs, key, new_value)
    IN  IF ~r.ok
        THEN [result |-> "Parsing", fs |-> r.fs, new_values |-> None,
              old_value |-> None]
        ELSE IF cv = None
        THEN [result |-> "NeverReloaded", fs |-> r.fs, new_values |-> None,
              old_value |-> None]
        ELSE [result |-> "Ok", fs |-> r.fs,
              new_values |-> NewValues(cv, key, new_value), old_value |-> r.old]

\* UpdateStep1 that drops the `?` after try_update: a parse failure goes on
UpdateStep1IgnoresParsing(cv, fs, key, new_value) ==
    IF cv = None
    THEN [result |-> "NeverReloaded", fs |-> fs, new_values |-> None,
          old_value |-> None]
    ELSE LET r == try_update(fs, key, new_value)
         IN  [result |-> "Ok", fs |-> r.fs,
              new_values |-> NewValues(cv, key, new_value), old_value |-> r.old]

\* update(): the first section under the write lock (step 1)
UpdateStep1(cv, fs, key, new_value) ==
    IF cv = None
    THEN [result |-> "NeverReloaded", fs |-> fs, new_values |-> None,
          old_value |-> None]
    ELSE LET new_values == NewValues(cv, key, new_value)
             r == try_update(fs, key, new_value)
         IN  IF r.ok
             THEN [result |-> "Ok", fs |-> r.fs, new_values |-> new_values,
                   old_value |-> r.old]
             ELSE [result |-> "Parsing", fs |-> r.fs, new_values |-> None,
                   old_value |-> None]

\* update(), from the key check to the end of the first write-lock section
UpdateBegin(t, key, value, modified_by) ==
    /\ task[t].pc = "idle"
    /\ now < MaxClock
    /\ now' = now + 1
    /\ LET tk == [Started(t, "update") EXCEPT
                     !.key = key, !.value = value, !.who = modified_by]
           new_value == CurrentValue(now', modified_by, value)
       IN  IF key \notin KeySet
           THEN /\ task' = [task EXCEPT ![t] = Finish(tk, "UnknownKey")]
                /\ UNCHANGED feattles_struct
           ELSE LET s1 == UpdateStep1(current_values, feattles_struct, key,
                                      new_value)
                    tk1 == [tk EXCEPT !.new_value = new_value]
                IN  /\ feattles_struct' = s1.fs
                    /\ task' = [task EXCEPT ![t] =
                           IF s1.result = "Ok"
                           THEN [tk1 EXCEPT !.pc = "u_load_history",
                                            !.new_values = s1.new_values,
                                            !.old_value = s1.old_value]
                           ELSE Finish(tk1, s1.result)]
    /\ UNCHANGED <<last_reload, current_values, stored_current, stored_history>>

\* step 2: persistence.load_history(key).await
UpdateLoadHistory(t) ==
    /\ task[t].pc = "u_load_history"
    /\ \E ok \in BOOLEAN :
         LET tk == Called(task[t], "load_history", ok)
         IN  task' = [task EXCEPT ![t] =
                 IF ok
                 THEN [tk EXCEPT !.pc = "u_definition",
                                 !.old_history =
                                     unwrap_or_default(stored_history[tk.key])]
                 ELSE [tk EXCEPT !.pc = "u_rollback"]]
    /\ UNCHANGED <<feattles_struct, last_reload, current_values,
                   stored_current, stored_history, now>>

\* step 2: self.definition(key) and the new history entry
UpdatePrepareHistory(t) ==
    /\ task[t].pc = "u_definition"
    /\ LET tk == task[t]
           new_definition == FeattleDefinition(tk.key, feattles_struct[tk.key])
           entry == HistoryEntry(tk.new_value.value,
                                 new_definition.value_overview,
                                 tk.new_value.modified_at,
                                 tk.new_value.modified_by)
       IN  task' = [task EXCEPT ![t] =
               [tk EXCEPT !.pc = "u_save_history",
                          !.new_history =
                              [entries |-> Append(tk.old_history.entries, entry)]]]
    /\ UNCHANGED <<feattles_struct, last_reload, current_values,
                   stored_current, stored_history, now>>

\* UpdateSaveHistory that only logs a failure and goes on to save_current
UpdateSaveHistoryGoesOn(t) ==
    /\ task[t].pc = "u_save_history"
    /\ \E ok \in BOOLEAN :
         LET tk == Called(task[t], "save_history", ok)
         IN  /\ stored_history' =
                    IF ok
                    THEN [stored_history EXCEPT ![tk.key] = tk.new_history]
                    ELSE stored_history
             /\ task' = [task EXCEPT ![t] = [tk EXCEPT !.pc = "u_save_current"]]
    /\ UNCHANGED <<feattles_struct, last_reload, current_values,
                   stored_current, now>>

\* step 2: persistence.save_history(key, &new_history).await
UpdateSaveHistory(t) ==
    /\ task[t].pc = "u_save_history"
    /\ \E ok \in BOOLEAN :
         LET tk == Called(task[t], "save_history", ok)
         IN  IF ok
             THEN /\ stored_history' =
                         [stored_history EXCEPT ![tk.key] = tk.new_history]
                  /\ task' = [task EXCEPT ![t] = [tk EXCEPT !.pc = "u_save_current"]]
             ELSE /\ UNCHANGED stored_history
                  /\ task' = [task EXCEPT ![t] = [tk EXCEPT !.pc = "u_rollback"]]
    /\ UNCHANGED <<feattles_struct, last_reload, current_values,
                   stored_current, now>>

\* UpdateRollback that puts back the flag as it was when update() was called
UpdateRollbackRestoresFlag(t) ==
    /\ task[t].pc = "u_rollback"
    /\ feattles_struct' =
           [feattles_struct EXCEPT
               ![task[t].key] = task[t].pre.feattles_struct[task[t].key]]
    /\ task' = [task EXCEPT ![t] = Finish(@, "Persistence")]
    /\ UNCHANGED <<last_reload, current_values, stored_current,
                   stored_history, now>>

\* rollback_step_1, as run by the map_err of load_history and save_history
UpdateRollback(t) ==
    /\ task[t].pc = "u_rollback"
    /\ feattles_struct' =
           try_update(feattles_struct, task[t].key, task[t].old_value).fs
    /\ task' = [task EXCEPT ![t] = Finish(@, "Persistence")]
    /\ UNCHANGED <<last_reload, current_values, stored_current,
                   stored_history, now>>

\* UpdateSaveCurrent that saves its entry on top of the snapshot that storage
\* holds at the time of the save
UpdateSaveCurrentMerges(t) ==
    /\ task[t].pc = "u_save_current"
    /\ \E ok \in BOOLEAN :
         LET tk == Called(task[t], "save_current", ok)
             base == IF stored_current = None THEN tk.new_values
                     ELSE stored_current
         IN  IF ok
             THEN /\ stored_current' =
                         [base EXCEPT !.feattles[tk.key] = tk.new_value,
                                      !.version = IF stored_current = None
                                                  THEN @ ELSE @ + 1]
                  /\ task' = [task EXCEPT ![t] = [tk EXCEPT !.pc = "u_commit"]]
             ELSE /\ UNCHANGED stored_current
                  /\ task' = [task EXCEPT ![t] = [tk EXCEPT !.pc = "u_rollback_current"]]
    /\ UNCHANGED <<feattles_struct, last_reload, current_values,
                   stored_history, now>>

\* UpdateSaveCurrent that keeps the write lock over the call to the port:
\* the snapshot is saved and committed in memory in one section
UpdateSaveCurrentUnderLock(t) ==
    /\ task[t].pc = "u_save_current"
    /\ \E ok \in BOOLEAN :
         LET tk == Called(task[t], "save_current", ok)
         IN  IF ok
             THEN /\ stored_current' = tk.new_values
                  /\ current_values' = tk.new_values
                  /\ task' = [task EXCEPT ![t] = Finish(tk, "Ok")]
             ELSE /\ UNCHANGED <<stored_current, current_values>>
                  /\ task' = [task EXCEPT ![t] = [tk EXCEPT !.pc = "u_rollback_current"]]
    /\ UNCHANGED <<feattles_struct, last_reload, stored_history, now>>

\* step 3: persistence.save_current(&new_values).await
UpdateSaveCurrent(t) ==
    /\ task[t].pc = "u_save_current"
    /\ \E ok \in BOOLEAN :
         LET tk == Called(task[t], "save_current", ok)
         IN  IF ok
             THEN /\ stored_current' = tk.new_values
                  /\ task' = [task EXCEPT ![t] = [tk EXCEPT !.pc = "u_commit"]]
             ELSE /\ UNCHANGED stored_current
                  /\ task' = [task EXCEPT ![t] = [tk EXCEPT !.pc = "u_rollback_current"]]
    /\ UNCHANGED <<feattles_struct, last_reload, current_values,
                   stored_history, now>>

\* step 3 failed: rollback_step_1
UpdateRollbackCurrent(t) ==
    /\ task[t].pc = "u_rollback_current"
    /\ feattles_struct' =
           try_update(feattles_struct, task[t].key, task[t].old_value).fs
    /\ task' = [task EXCEPT ![t] = [@ EXCEPT !.pc = "u_rollback_history"]]
    /\ UNCHANGED <<last_reload, current_values, stored_current,
                   stored_history, now>>

\* UpdateRollbackHistory that returns without saving the old history back
UpdateRollbackHistorySkipped(t) ==
    /\ task[t].pc = "u_rollback_history"
    /\ task' = [task EXCEPT ![t] = Finish(@, "Persistence")]
    /\ UNCHANGED <<feattles_struct, last_reload, current_values,
                   stored_current, stored_history, now>>

\* step 3 failed: save_history(key, &old_history).await, a failure is only logged
UpdateRollbackHistory(t) ==
    /\ task[t].pc = "u_rollback_history"
    /\ \E ok \in BOOLEAN :
         LET tk == Called(task[t], "save_history", ok)
         IN  /\ stored_history' =
                    IF ok
                    THEN [stored_history EXCEPT ![tk.key] = tk.old_history]
                    ELSE stored_history
             /\ task' = [task EXCEPT ![t] = Finish(tk, "Persistence")]
    /\ UNCHANGED <<feattles_struct, last_reload, current_values,
                   stored_current, now>>

\* UpdateCommit that also records the new version as the last one loaded
UpdateCommitRecordsVersion(t) ==
    /\ task[t].pc = "u_commit"
    /\ current_values' = task[t].new_values
    /\ last_reload' = Data(now, task[t].new_values.version,
                           task[t].new_values.date)
    /\ task' = [task EXCEPT ![t] = Finish(@, "Ok")]
    /\ UNCHANGED <<feattles_struct, stored_current, stored_history, now>>

\* UpdateCommit that forgets to keep the saved snapshot in memory
UpdateCommitSkipped(t) ==
    /\ task[t].pc = "u_commit"
    /\ task' = [task EXCEPT ![t] = Finish(@, "Ok")]
    /\ UNCHANGED <<feattles_struct, last_reload, current_values,
                   stored_current, stored_history, now>>

\* step 4: self._write().current_values = Some(new_values)
UpdateCommit(t) ==
    /\ task[t].pc = "u_commit"
    /\ current_values' = task[t].new_values
    /\ task' = [task EXCEPT ![t] = Finish(@, "Ok")]
    /\ UNCHANGED <<feattles_struct, last_reload, stored_current,
                   stored_history, now>>

(***************************************************************************)
(* Feattles::history                                                       *)
(***************************************************************************)
\* History that asks the port before (instead of after) checking the key
HistoryNoKeyCheck(t, key) ==
    /\ task[t].pc = "idle"
    /\ now < MaxClock
    /\ now' = now + 1
    /\ LET tk == [Started(t, "history") EXCEPT !.key = key]
       IN  \E ok \in BOOLEAN :
             task' = [task EXCEPT ![t] =
                 IF ok
                 THEN [Finish(Called(tk, "load_history", ok), "Ok") EXCEPT
                          !.new_history =
                              unwrap_or_default(stored_history[key])]
                 ELSE Finish(Called(tk, "load_history", ok), "Persistence")]
    /\ UNCHANGED <<feattles_struct, last_reload, current_values,
                   stored_current, stored_history>>

\* history(): the key check, then load_history(key) and unwrap_or_default
History(t, key) ==
    /\ task[t].pc = "idle"
    /\ now < MaxClock
    /\ now' = now + 1
    /\ LET tk == [Started(t, "history") EXCEPT !.key = key]
       IN  IF key \notin KeySet
           THEN task' = [task EXCEPT ![t] = Finish(tk, "UnknownKey")]
           ELSE \E ok \in BOOLEAN :
                  task' = [task EXCEPT ![t] =
                      IF ok
                      THEN [Finish(Called(tk, "load_history", ok), "Ok") EXCEPT
                               !.new_history =
                                   unwrap_or_default(stored_history[key])]
                      ELSE Finish(Called(tk, "load_history", ok), "Persistence")]
    /\ UNCHANGED <<feattles_struct, last_reload, current_values,
                   stored_current, stored_history>>

\* the caller takes the result; the slot is free for the next call
Return(t) ==
    /\ task[t].pc = "done"
    /\ task' = [task EXCEPT ![t] =
           [IdleTask EXCEPT
               !.prev =
                   [op |-> task[t].op, key |-> task[t].key,
                    new_value |-> task[t].new_value, result |-> task[t].result],
               !.last_update =
                   IF task[t].op = "update" /\ task[t].result = "Ok"
                   THEN [key |-> task[t].key, entry |-> task[t].new_value]
                   ELSE task[t].last_update]]
    /\ UNCHANGED <<feattles_struct, last_reload, current_values,
                   stored_current, stored_history, now>>

(***************************************************************************)
(* Specifications                                                          *)
(***************************************************************************)
Step(t) ==
    \/ ReloadLoadCurrent(t)
    \/ ReloadApply(t)
    \/ \E key \in AllKeys, value \in InputValues, modified_by \in Users :
           UpdateBegin(t, key, value, modified_by)
    \/ UpdateLoadHistory(t)
    \/ UpdatePrepareHistory(t)
    \/ UpdateSaveHistory(t)
    \/ UpdateRollback(t)
    \/ UpdateSaveCurrent(t)
    \/ UpdateRollbackCurrent(t)
    \/ UpdateRollbackHistory(t)
    \/ UpdateCommit(t)
    \/ \E key \in AllKeys : History(t, key)
    \/ Return(t)

\* the calls run one after another, all from the first slot
Next == Step(1)

Spec == Init /\ [][Next]_vars

\* Two tasks share the registry (its state is behind a RwLock and every method
\* takes &self). Each task has its own caller and its own values.
UserOf(t) == IF t = 1 THEN "alice" ELSE "bob"

ValuesOf(t) == {IF t = 1 THEN JNum(27) ELSE JNum(207), JStr("x")}

\* Calls that do not overlap are all made by the first task: the second one
\* starts a call only while a call of the first is in progress on a registry
\* that has been reloaded.
MayStart(t) ==
    t # 1 => (current_values # None /\ task[1].pc \notin {"idle", "done"})

StepConc(t) ==
    \/ MayStart(t) /\ ReloadLoadCurrent(t)
    \/ ReloadApply(t)
    \/ \E key \in KeySet, value \in ValuesOf(t) :
           MayStart(t) /\ UpdateBegin(t, key, value, UserOf(t))
    \/ UpdateLoadHistory(t)
    \/ UpdatePrepareHistory(t)
    \/ UpdateSaveHistory(t)
    \/ UpdateRollback(t)
    \/ UpdateSaveCurrent(t)
    \/ UpdateRollbackCurrent(t)
    \/ UpdateRollbackHistory(t)
    \/ UpdateCommit(t)
    \/ Return(t)

\* The steps of the two tasks interleave between the lock sections and the
\* port calls.
NextConc == \E t \in Tasks : StepConc(t)

SpecConc == Init /\ [][NextConc]_vars

\* A storage that holds nothing: load_current returns nothing stored, or
\* fails. The two tasks only reload.
InitNoData == Init /\ stored_current = None

NextNoData ==
    \E t \in Tasks :
        \/ ReloadLoadCurrent(t)
        \/ ReloadApply(t)
        \/ Return(t)

SpecNoData == InitNoData /\ [][NextNoData]_vars

\* A value of a supported type goes through as_json and then through
\* try_from_json; the registry is left alone.
CodecTask(T, v) ==
    [pc |-> "c_value", type |-> T, value |-> v, json |-> JNull,
     parsed |-> WrongKind, overview |-> ""]

InitCodec ==
    /\ feattles_struct = [k \in KeySet |-> FeattleNew(k)]
    /\ last_reload = Never
    /\ current_values = None
    /\ stored_current = None
    /\ stored_history = [k \in AllKeys |-> None]
    /\ now = 0
    /\ \E T \in TypesOf(MaxDepth) : \E v \in Values(T) :
           task = [t \in Tasks |-> IF t = 1 THEN CodecTask(T, v) ELSE IdleTask]

AsJson(t) ==
    /\ task[t].pc = "c_value"
    /\ task' = [task EXCEPT ![t] =
           [@ EXCEPT !.pc = "c_json",
                     !.json = FeattleValue_as_json(task[t].type, task[t].value)]]
    /\ UNCHANGED <<feattles_struct, last_reload, current_values,
                   stored_current, stored_history, now>>

TryFromJson(t) ==
    /\ task[t].pc = "c_json"
    /\ task' = [task EXCEPT ![t] =
           [@ EXCEPT !.pc = "c_parsed",
                     !.parsed =
                         FeattleValue_try_from_json(task[t].type, task[t].json)]]
    /\ UNCHANGED <<feattles_struct, last_reload, current_values,
                   stored_current, stored_history, now>>

NextCodec == AsJson(1) \/ TryFromJson(1)

SpecCodec == InitCodec /\ [][NextCodec]_vars

\* A JSON value of any kind is read as a value of a type, as the tests of
\* feattle_value.rs do (converts, fails): the integers around the limits of
\* the integer types, floats, strings, arrays, objects, null.
Magnitudes ==
    {<<0, 0, 0, 0>>, <<0, 0, 0, 17>>, <<0, 0, 0, 127>>, <<0, 0, 0, 128>>,
     <<0, 0, 0, 129>>, <<0, 0, 0, 255>>, <<0, 0, 0, 256>>,
     <<0, 0, 0, 32767>>, <<0, 0, 0, 32768>>, <<0, 0, 0, 32769>>,
     <<0, 0, 0, 65535>>, <<0, 0, 1, 0>>, <<0, 0, 256, 1>>,
     <<0, 0, 32767, 65535>>, <<0, 0, 32768, 0>>, <<0, 0, 32768, 1>>,
     <<0, 0, 65535, 65535>>, <<0, 1, 0, 0>>,
     <<32767, 65535, 65535, 65535>>, <<32768, 0, 0, 0>>,
     <<65535, 65535, 65535, 65535>>}

\* json!(n) of an integer: PosInt(u64) or, below zero, NegInt(i64)
JsonIntegers ==
    {JNum(WideInt(FALSE, mag)) : mag \in Magnitudes}
        \cup {JNum(WideInt(TRUE, mag)) :
                 mag \in {m \in Magnitudes :
                     /\ m # <<0, 0, 0, 0>>
                     /\ WideLeq(IntMin("i64"), WideInt(TRUE, m))}}

\* json!(x) of a float: 17.0, 17.5, -17.5, 0.1, 16777217.0, 2^128, 2^-149,
\* 2^-150, f32::MAX, f32::MAX + 2^103 (halfway to 2^128)
JsonFloats ==
    {JFloat(Float(FALSE, 4, 2^19, 0)), JFloat(Float(FALSE, 4, 2^19 + 2^18, 0)),
     JFloat(Float(TRUE, 4, 2^19 + 2^18, 0)),
     JFloat(Float(FALSE, -4, 5033164, 429496730)),
     JFloat(Float(FALSE, 24, 0, 2^28)), JFloat(Float(FALSE, 128, 0, 0)),
     JFloat(Float(FALSE, -149, 0, 0)), JFloat(Float(FALSE, -150, 0, 0)),
     JFloat(Float(FALSE, 127, 2^23 - 1, 0)),
     JFloat(Float(FALSE, 127, 2^23 - 1, 2^28))}

JsonScalars ==
    {JNull, JBool(TRUE), JStr("Red"), JStr("Black"), JStr("x")}
        \cup {JNum(WideInt(FALSE, <<0, 0, 0, 17>>)),
              JNum(WideInt(FALSE, <<0, 0, 0, 256>>)),
              JFloat(Float(FALSE, -4, 5033164, 429496730))}

JsonInputs ==
    JsonIntegers \cup JsonFloats \cup JsonScalars
        \cup {JArray(l) : l \in UNION {[1..n -> JsonScalars] : n \in 0..MaxItems}}
        \cup {JObject(f) : f \in UNION {[D -> JsonScalars] :
                 D \in {x \in SUBSET {"Red", "Black"} : Cardinality(x) <= MaxItems}}}

\* the types that the values are read as
ParseTypes ==
    BaseTypes \cup {F32Type, F64Type}
        \cup {VecType(T) : T \in {IntType("u8"), EnumType, F32Type}}
        \cup {SetType(IntType("u8")), MapType(EnumType, IntType("u8")),
              MapType(StringType, F32Type), OptionType(IntType("u8")),
              OptionType(EnumType), OptionType(VecType(IntType("u8")))}

InitParse ==
    /\ feattles_struct = [k \in KeySet |-> FeattleNew(k)]
    /\ last_reload = Never
    /\ current_values = None
    /\ stored_current = None
    /\ stored_history = [k \in AllKeys |-> None]
    /\ now = 0
    /\ \E T \in ParseTypes : \E value \in JsonInputs :
           task = [t \in Tasks |->
                      IF t = 1
                      THEN [CodecTask(T, None) EXCEPT !.pc = "c_json",
                                                      !.json = value]
                      ELSE IdleTask]

NextParse == TryFromJson(1)

SpecParse == InitParse /\ [][NextParse]_vars

\* The overview of a list or a set is taken, as the tests vec and set of
\* feattle_value.rs do: lists and sets of up to MaxLen items, and the list of
\* six items of the test.
MaxLen == 5

SmallInt(n) == WideInt(n < 0, <<0, 0, 0, IF n < 0 THEN -n ELSE n>>)

TestList == [list |-> <<SmallInt(3), SmallInt(14), SmallInt(15), SmallInt(92),
                        SmallInt(65), SmallInt(35)>>]

\* the item types, and the items that the lists and sets are made of
OverviewItemTypes ==
    {IntType("i32"), BoolType, StringType, OptionType(EnumType),
     VecType(IntType("i32"))}

OverviewItems(T) ==
    CASE T = IntType("i32") ->
            {SmallInt(3), SmallInt(14), SmallInt(92), SmallInt(-65)}
      [] T = BoolType -> {[b |-> TRUE], [b |-> FALSE]}
      [] T = StringType -> {[s |-> ""], [s |-> "Red"], [s |-> "x"]}
      [] T = OptionType(EnumType) ->
            {None, Some([variant |-> "Red"]), Some([variant |-> "Blue"])}
      [] T = VecType(IntType("i32")) ->
            {[list |-> <<>>], [list |-> <<SmallInt(3), SmallInt(14)>>],
             [list |-> <<SmallInt(3), SmallInt(14), SmallInt(15), SmallInt(92)>>]}

ListsOf(T) ==
    {<<VecType(T), [list |-> l]>> :
        l \in UNION {[1..n -> OverviewItems(T)] : n \in 0..MaxLen}}

SetsOf(T) ==
    {<<SetType(T), [set |-> x]>> :
        x \in {y \in SUBSET OverviewItems(T) : Cardinality(y) <= MaxLen}}

OverviewInputs ==
    {<<VecType(IntType("i32")), TestList>>}
        \cup UNION {ListsOf(T) \cup SetsOf(T) : T \in OverviewItemTypes}

InitOverview ==
    /\ feattles_struct = [k \in KeySet |-> FeattleNew(k)]
    /\ last_reload = Never
    /\ current_values = None
    /\ stored_current = None
    /\ stored_history = [k \in AllKeys |-> None]
    /\ now = 0
    /\ \E input \in OverviewInputs :
           task = [t \in Tasks |->
                      IF t = 1 THEN CodecTask(input[1], input[2]) ELSE IdleTask]

Overview(t) ==
    /\ task[t].pc = "c_value"
    /\ task' = [task EXCEPT ![t] =
           [@ EXCEPT !.pc = "c_overview",
                     !.overview =
                         FeattleValue_overview(task[t].type, task[t].value)]]
    /\ UNCHANGED <<feattles_struct, last_reload, current_values,
                   stored_current, stored_history, now>>

NextOverview == Overview(1)

SpecOverview == InitOverview /\ [][NextOverview]_vars

(***************************************************************************)
(* feattle-sync: BackgroundSync                                            *)
(***************************************************************************)
\* The application (slot 1) creates a BackgroundSync for its registry and
\* calls start(), which reloads once and spawns the polling task (slot 2).
\* One more slot holds the BackgroundSync value, the application's Arc and
\* the clock of the runtime.
SyncSlot == 3

\* the time that passes, at most, before start() is called and while one
\* load_current() is awaited
MaxDelay == 1

\* Duration::from_secs(30), Duration::from_secs(60) in BackgroundSync::new
OkDefault == 30

ErrDefault == 60

\* the durations that the setters are called with
Intervals == {10}

\* BackgroundSync::new(&toggles): `arc` is the application's Arc<F>, `held`
\* the slots that hold an upgraded Arc, `time` the clock of tokio::time.
\* `configured` tells that a setter was called; `called_at` and
\* `dropped_at_call` record when start() was called and whether the
\* application had dropped its Arc by then; `last_end`, `last_ok`, `waited`
\* and `after_ok` record when the last reload returned and how, and how long
\* the task then slept before the reload it is making.
NewSync ==
    [ok_interval |-> OkDefault, err_interval |-> ErrDefault, arc |-> TRUE,
     held |-> {}, time |-> 0, configured |-> FALSE,
     start_pc |-> "new", start_result |-> "pending", called_at |-> 0,
     dropped_at_call |-> FALSE,
     bg_pc |-> "unspawned", deadline |-> 0, slow |-> FALSE,
     last_end |-> 0, last_ok |-> TRUE, waited |-> 0, after_ok |-> TRUE]

sync == task[SyncSlot]

InitSync ==
    /\ feattles_struct = [k \in KeySet |-> FeattleNew(k)]
    /\ last_reload = Never
    /\ current_values = None
    /\ stored_current \in InitialSnapshots
    /\ stored_history = [k \in AllKeys |-> None]
    /\ now = 0
    /\ task = [t \in Tasks \cup {SyncSlot} |->
                  IF t = SyncSlot THEN NewSync ELSE IdleTask]

\* slot t is inside `feattles.reload().await` of start() or of the loop
InReload(t) ==
    IF t = 1 THEN sync.start_pc = "reload" ELSE sync.bg_pc = "reload"

\* slot t is running between two awaits: it has upgraded the Weak and not yet
\* called load_current, or reload has returned and it has not yet gone on
\* to sleep (or to return)
InPoll(t) == InReload(t) /\ task[t].pc \in {"idle", "done"}

SyncUnchanged ==
    UNCHANGED <<feattles_struct, last_reload, current_values, stored_current,
                stored_history, now>>

\* BackgroundSync::interval
SyncSetInterval(value) ==
    /\ sync.start_pc = "new"
    /\ task' = [task EXCEPT ![SyncSlot] =
           [@ EXCEPT !.ok_interval = value, !.err_interval = value,
                     !.configured = TRUE]]
    /\ SyncUnchanged

\* BackgroundSync::ok_interval
SyncSetOkInterval(value) ==
    /\ sync.start_pc = "new"
    /\ task' = [task EXCEPT ![SyncSlot] =
           [@ EXCEPT !.ok_interval = value, !.configured = TRUE]]
    /\ SyncUnchanged

\* BackgroundSync::err_interval
SyncSetErrInterval(value) ==
    /\ sync.start_pc = "new"
    /\ task' = [task EXCEPT ![SyncSlot] =
           [@ EXCEPT !.err_interval = value, !.configured = TRUE]]
    /\ SyncUnchanged

\* time passes before the application calls start()
AppWaits ==
    /\ sync.start_pc = "new"
    /\ sync.time < MaxDelay
    /\ task' = [task EXCEPT ![SyncSlot] = [@ EXCEPT !.time = @ + 1]]
    /\ SyncUnchanged

\* drop(toggles): the application drops its Arc, from a thread of its own
AppDrop ==
    /\ sync.arc
    /\ \A t \in Tasks : ~InPoll(t)
    /\ task' = [task EXCEPT ![SyncSlot] = [@ EXCEPT !.arc = FALSE]]
    /\ SyncUnchanged

\* Weak::upgrade
upgrade == sync.arc \/ sync.held # {}

\* start(): `let feattles = self.feattles.upgrade()?;`
SyncStart ==
    /\ sync.start_pc = "new"
    /\ task' = [task EXCEPT ![SyncSlot] =
           IF upgrade
           THEN [@ EXCEPT !.start_pc = "reload", !.held = @ \cup {1},
                          !.called_at = sync.time,
                          !.dropped_at_call = ~sync.arc]
           ELSE [@ EXCEPT !.start_pc = "returned", !.start_result = "None",
                          !.called_at = sync.time,
                          !.dropped_at_call = ~sync.arc]]
    /\ SyncUnchanged

\* the load_current() of a reload takes time to answer
ReloadTakesTime(t) ==
    /\ InReload(t)
    /\ task[t].pc = "r_apply"
    /\ ~sync.slow
    /\ \E d \in 1..MaxDelay :
           task' = [task EXCEPT ![SyncSlot] =
               [@ EXCEPT !.time = @ + d, !.slow = TRUE]]
    /\ SyncUnchanged

\* the interval to sleep after a reload that returned `result`
SleepAfterAlwaysOk(result) == sync.ok_interval

SleepAfter(result) ==
    IF result = "Ok" THEN sync.ok_interval ELSE sync.err_interval

\* SyncStartSpawn that returns no error when the first reload failed
SyncStartSpawnReturnsNone ==
    /\ sync.start_pc = "reload"
    /\ task[1].pc = "done"
    /\ task' = [task EXCEPT ![SyncSlot] =
           [@ EXCEPT !.start_pc = "returned",
                     !.start_result = "None",
                     !.held = @ \ {1},
                     !.bg_pc = "first_sleep",
                     !.deadline = sync.time + SleepAfter(task[1].result),
                     !.slow = FALSE,
                     !.last_end = sync.time,
                     !.last_ok = (task[1].result = "Ok")]]
    /\ SyncUnchanged

\* start(), after the first reload: first_error, first_sleep, tokio::spawn
\* and the return of first_error
SyncStartSpawn ==
    /\ sync.start_pc = "reload"
    /\ task[1].pc = "done"
    /\ task' = [task EXCEPT ![SyncSlot] =
           [@ EXCEPT !.start_pc = "returned",
                     !.start_result =
                         IF task[1].result = "Ok" THEN "None" ELSE "Some",
                     !.held = @ \ {1},
                     !.bg_pc = "first_sleep",
                     !.deadline = sync.time + SleepAfter(task[1].result),
                     !.slow = FALSE,
                     !.last_end = sync.time,
                     !.last_ok = (task[1].result = "Ok")]]
    /\ SyncUnchanged

\* the sleep of the task ends: the clock reaches the deadline
TimePasses ==
    /\ sync.bg_pc \in {"first_sleep", "sleep"}
    /\ sync.time < sync.deadline
    /\ \A t \in Tasks : ~InPoll(t)
    /\ task' = [task EXCEPT ![SyncSlot] = [@ EXCEPT !.time = sync.deadline]]
    /\ SyncUnchanged

\* BgWake that goes on without looking at the Weak
BgWakeNoUpgrade ==
    /\ sync.bg_pc \in {"first_sleep", "sleep"}
    /\ sync.time = sync.deadline
    /\ task[2].pc = "idle"
    /\ now < MaxClock
    /\ task' = [task EXCEPT ![SyncSlot] =
           [@ EXCEPT !.bg_pc = "reload", !.held = {2},
                     !.waited = sync.time - sync.last_end,
                     !.after_ok = sync.last_ok]]
    /\ SyncUnchanged

\* the task wakes up: the Arc of the iteration that ended is dropped and
\* `while let Some(feattles) = self.feattles.upgrade()` is evaluated
BgWake ==
    /\ sync.bg_pc \in {"first_sleep", "sleep"}
    /\ sync.time = sync.deadline
    /\ task[2].pc = "idle"
    /\ sync.arc => now < MaxClock
    /\ task' = [task EXCEPT ![SyncSlot] =
           IF sync.arc
           THEN [@ EXCEPT !.bg_pc = "reload", !.held = {2},
                          !.waited = sync.time - sync.last_end,
                          !.after_ok = sync.last_ok]
           ELSE [@ EXCEPT !.bg_pc = "ended", !.held = {}]]
    /\ SyncUnchanged

\* the loop, after the reload: log and sleep
BgSleep ==
    /\ sync.bg_pc = "reload"
    /\ task[2].pc = "done"
    /\ task' = [task EXCEPT ![SyncSlot] =
           [@ EXCEPT !.bg_pc = "sleep",
                     !.deadline = sync.time + SleepAfter(task[2].result),
                     !.slow = FALSE,
                     !.last_end = sync.time,
                     !.last_ok = (task[2].result = "Ok")]]
    /\ SyncUnchanged

\* the steps of the task and of start() once it is called
SyncRun ==
    \/ \E t \in Tasks : InPoll(t) /\ ReloadLoadCurrent(t)
    \/ \E t \in Tasks : ReloadTakesTime(t)
    \/ \E t \in Tasks : ReloadApply(t)
    \/ SyncStartSpawn
    \/ BgSleep
    \/ \E t \in Tasks : ~InReload(t) /\ Return(t)
    \/ TimePasses
    \/ BgWake

NextSync ==
    \/ \E value \in Intervals : SyncSetInterval(value)
    \/ \E value \in Intervals : SyncSetOkInterval(value)
    \/ \E value \in Intervals : SyncSetErrInterval(value)
    \/ AppWaits
    \/ AppDrop
    \/ SyncStart
    \/ SyncRun

SpecSync == InitSync /\ [][NextSync]_vars

\* the runtime goes on polling the tasks and the timers fire
SpecSyncFair == SpecSync /\ WF_vars(SyncRun)

(***************************************************************************)
(* feattle-ui: AdminPanel::edit_feattle and edit_feattle_api_v1            *)
(***************************************************************************)
\* The requests to the admin panel are served one after another in slot 1;
\* one more slot holds the request in progress. `pre` is what was observable
\* when the request arrived.
PanelSlot == 4

NoRequest ==
    [pc |-> "none", key |-> "", value |-> None, modified_by |-> "",
     result |-> "none", pre |-> None]

panel == task[PanelSlot]

\* the JSON texts that the form posts as value_json
JsonTexts == {"27", "207", "\"x\"", "{"}

\* serde_json::from_str
serde_json_from_str(text) ==
    CASE text = "27" -> Ok(JNum(27))
      [] text = "207" -> Ok(JNum(207))
      [] text = "\"x\"" -> Ok(JStr("x"))
      [] OTHER -> [ok |-> FALSE, err |-> "Serialization"]

InitPanel ==
    /\ feattles_struct = [k \in KeySet |-> FeattleNew(k)]
    /\ last_reload = Never
    /\ current_values = None
    /\ stored_current \in InitialSnapshots
    /\ stored_history = [k \in AllKeys |-> None]
    /\ now = 0
    /\ task = [t \in Tasks \cup {PanelSlot} |->
                  IF t = PanelSlot THEN NoRequest ELSE IdleTask]

\* edit_feattle_api_v1, up to the call of reload()
PanelEditApi(t, key, value, modified_by) ==
    /\ panel.pc \in {"none", "responded"}
    /\ task[t].pc = "idle"
    /\ task' = [task EXCEPT ![PanelSlot] =
           [NoRequest EXCEPT !.pc = "reload", !.key = key, !.value = value,
                             !.modified_by = modified_by, !.pre = Observed]]
    /\ SyncUnchanged

\* edit_feattle: the value is parsed, then edit_feattle_api_v1 is called
PanelEdit(t, key, value_json, modified_by) ==
    LET value == serde_json_from_str(value_json)
    IN  IF value.ok THEN PanelEditApi(t, key, value.val, modified_by)
        ELSE /\ panel.pc \in {"none", "responded"}
             /\ task[t].pc = "idle"
             /\ task' = [task EXCEPT ![PanelSlot] =
                    [NoRequest EXCEPT !.pc = "responded", !.key = key,
                                      !.modified_by = modified_by,
                                      !.result = "Serialization",
                                      !.pre = Observed]]
             /\ SyncUnchanged

\* PanelAfterReload that only notes that the reload failed, as
\* list_feattles_api_v1 and show_feattle_api_v1 do
PanelAfterReloadGoesOn(t) ==
    /\ panel.pc = "reload"
    /\ task[t].pc = "done"
    /\ task' = [task EXCEPT ![PanelSlot] = [@ EXCEPT !.pc = "update"]]
    /\ SyncUnchanged

\* `self.feattles.reload().await.map_err(RenderError::Reload)?`
PanelAfterReload(t) ==
    /\ panel.pc = "reload"
    /\ task[t].pc = "done"
    /\ task' = [task EXCEPT ![PanelSlot] =
           IF task[t].result = "Ok" THEN [@ EXCEPT !.pc = "update"]
           ELSE [@ EXCEPT !.pc = "responded", !.result = "Reload"]]
    /\ SyncUnchanged

\* `self.feattles.update(..).await?` has returned: the response
PanelAfterUpdate(t) ==
    /\ panel.pc = "update"
    /\ task[t].pc = "done"
    /\ task[t].op = "update"
    /\ task' = [task EXCEPT ![PanelSlot] =
           [@ EXCEPT !.pc = "responded",
                     !.result = IF task[t].result = "Ok" THEN "Ok"
                                ELSE "Update"]]
    /\ SyncUnchanged

\* the caller of reload() or update() takes the result once the panel has
\* looked at it
PanelReturn(t) ==
    /\ \/ panel.pc = "update" /\ task[t].op = "reload"
       \/ panel.pc = "responded"
    /\ Return(t)

StepPanel(t) ==
    \/ \E key \in AllKeys, value \in InputValues, modified_by \in Users :
           PanelEditApi(t, key, value, modified_by)
    \/ \E key \in AllKeys, value_json \in JsonTexts, modified_by \in Users :
           PanelEdit(t, key, value_json, modified_by)
    \/ panel.pc = "reload" /\ ReloadLoadCurrent(t)
    \/ ReloadApply(t)
    \/ PanelAfterReload(t)
    \/ panel.pc = "update" /\ UpdateBegin(t, panel.key, panel.value, panel.modified_by)
    \/ UpdateLoadHistory(t)
    \/ UpdatePrepareHistory(t)
    \/ UpdateSaveHistory(t)
    \/ UpdateRollback(t)
    \/ UpdateSaveCurrent(t)
    \/ UpdateRollbackCurrent(t)
    \/ UpdateRollbackHistory(t)
    \/ UpdateCommit(t)
    \/ PanelAfterUpdate(t)
    \/ PanelReturn(t)

NextPanel == StepPanel(1)

SpecPanel == InitPanel /\ [][NextPanel]_vars

(***************************************************************************)
(* Vocabulary of the properties                                           *)
(***************************************************************************)
\* the call `op` of slot t has returned and its caller has not yet gone on
Returned(t, op) == task[t].pc = "done" /\ task[t].op = op

\* the first port call that failed in the call of slot t was `name`
FailedAt(t, name) ==
    /\ task[t].failed # <<>>
    /\ task[t].failed[1] = name

\* the entries of a stored history (a missing history has none)
HistoryContent(h) == unwrap_or_default(h).entries

\* the entry does not parse as the flag's type
Unparsable(entry) == entry # None /\ ~try_from_json(entry.value).ok

\* the record a flag has after a successful update from `entry`
RecordOf(k, entry) ==
    IF entry = None THEN FeattleNew(k)
    ELSE [value |-> try_from_json(entry.value).val, current_value |-> entry]

(***************************************************************************)
(* Properties                                                              *)
(***************************************************************************)
\* C1: if save_current fails during update(k, v, who), then when the call
\* returns k's in-memory value is its value before the call and the call
\* returns the Persistence error.
C1_RollbackOnSaveCurrentFailure ==
    \A t \in Tasks :
        (Returned(t, "update") /\ FailedAt(t, "save_current")) =>
            /\ task[t].result = "Persistence"
            /\ feattles_struct[task[t].key].value =
                   task[t].pre.feattles_struct[task[t].key].value

\* C2 (as claimed): whenever update(k, ...) returns an error, the persisted
\* snapshot and the persisted history of k have the content they had before
\* the call.
C2_FailedUpdateLeavesStorage ==
    \A t \in Tasks :
        (Returned(t, "update") /\ task[t].result # "Ok") =>
            /\ stored_current = task[t].pre.stored_current
            /\ HistoryContent(stored_history[task[t].key]) =
                   HistoryContent(task[t].pre.stored_history[task[t].key])

\* C2 (amended): whenever update(k, ...) returns an error, the persisted
\* snapshot is as before the call, and so is the content of the persisted
\* history of k, except when save_current failed and the save_history that
\* rolls the history back failed too: then the history of k keeps the entry
\* this call appended.
C2_FailedUpdateLeavesStorageUnlessRollbackFails ==
    \A t \in Tasks :
        (Returned(t, "update") /\ task[t].result # "Ok") =>
            /\ stored_current = task[t].pre.stored_current
            /\ \/ HistoryContent(stored_history[task[t].key]) =
                      HistoryContent(task[t].pre.stored_history[task[t].key])
               \/ /\ task[t].failed = <<"save_current", "save_history">>
                  /\ stored_history[task[t].key] = task[t].new_history

\* C2 witness: save_current failed, the history was rolled back
C2_Witness ==
    \E t \in Tasks :
        /\ Returned(t, "update")
        /\ task[t].failed = <<"save_current">>
        /\ task[t].calls =
               <<"load_history", "save_history", "save_current", "save_history">>

\* C3: the persisted snapshot's version is exactly 1 higher after each
\* successful update() and unchanged after each failed one; the first
\* successful update after a reload of empty storage persists version 1.
C3_VersionStepsByOne ==
    \A t \in Tasks :
        Returned(t, "update") =>
            LET before == task[t].pre.stored_current
            IN  IF task[t].result = "Ok"
                THEN /\ stored_current # None
                     /\ stored_current.version =
                            IF before = None THEN 1 ELSE before.version + 1
                ELSE stored_current = before

\* C3 witness: the second successful update after a reload of empty storage
C3_Witness ==
    \E t \in Tasks :
        /\ Returned(t, "update")
        /\ task[t].result = "Ok"
        /\ last_reload.tag = "NoData"
        /\ task[t].pre.stored_current # None
        /\ task[t].pre.stored_current.version = 1
        /\ stored_current.version = 2

\* C4: after update(k, v, who) succeeds, a successful reload() that follows
\* it (with no successful update in between) leaves k's value equal to v and
\* k's modified_by and modified_at equal to who and the time of that update.
C4_UpdateThenReload ==
    \A t \in Tasks :
        (/\ Returned(t, "reload") /\ task[t].result = "Ok"
         /\ task[t].last_update # None) =>
            LET k == task[t].last_update.key
                entry == task[t].last_update.entry
                d == FeattleDefinition(k, feattles_struct[k])
            IN  /\ d.value = entry.value
                /\ d.modified_by = [some |-> entry.modified_by]
                /\ d.modified_at = [some |-> entry.modified_at]

\* C4 witness: a reload has returned Ok right after a successful update
C4_Witness ==
    \E t \in Tasks :
        /\ Returned(t, "reload") /\ task[t].result = "Ok"
        /\ task[t].prev.op = "update" /\ task[t].prev.result = "Ok"
        /\ task[t].last_update.entry = task[t].prev.new_value
        /\ task[t].prev.new_value.value = JNum(207)

\* C5: whenever the entry handed to a flag record's update fails to parse
\* (in update() or in reload()), the record keeps its value and its
\* provenance.
C5_ParseFailureLeavesRecord ==
    \A t \in Tasks :
        /\ (Returned(t, "update") /\ task[t].result = "Parsing") =>
               feattles_struct[task[t].key] =
                   task[t].pre.feattles_struct[task[t].key]
        /\ (Returned(t, "reload") /\ task[t].result = "Ok"
                /\ task[t].loaded # None) =>
               \A k \in KeySet :
                   Unparsable(task[t].loaded.feattles[k]) =>
                       feattles_struct[k] = task[t].pre.feattles_struct[k]

\* C6: in a reload() that loads a snapshot with an entry that fails to parse,
\* reload() still returns Ok and every other declared key has the value and
\* provenance of its own snapshot entry.
C6_ReloadSkipsUnparsable ==
    \A t \in Tasks :
        (/\ Returned(t, "reload")
         /\ task[t].failed = <<>>
         /\ task[t].loaded # None
         /\ \E bad \in KeySet : Unparsable(task[t].loaded.feattles[bad])) =>
            /\ task[t].result = "Ok"
            /\ \A k \in KeySet :
                   ~Unparsable(task[t].loaded.feattles[k]) =>
                       feattles_struct[k] = RecordOf(k, task[t].loaded.feattles[k])

\* C6 witness: "a" was stored with a string, "b" with 207
C6_Witness ==
    \E t \in Tasks :
        /\ Returned(t, "reload")
        /\ task[t].loaded # None
        /\ Unparsable(task[t].loaded.feattles["a"])
        /\ feattles_struct["b"].value = 207
        /\ task[t].pre.feattles_struct["b"].value = 17

\* C7: when load_current fails, reload() returns that error and leaves
\* last_reload(), current_values() and every flag's value and provenance as
\* they were.
C7_FailedReloadChangesNothing ==
    \A t \in Tasks :
        (Returned(t, "reload") /\ FailedAt(t, "load_current")) =>
            /\ task[t].result = "PortError"
            /\ last_reload = task[t].pre.last_reload
            /\ current_values = task[t].pre.current_values
            /\ feattles_struct = task[t].pre.feattles_struct

\* C7 witness: a reload fails after an earlier one had succeeded
C7_Witness ==
    \E t \in Tasks :
        /\ Returned(t, "reload") /\ FailedAt(t, "load_current")
        /\ last_reload.tag # "Never"

\* C8: update(key, ...) and history(key) with a key that is not declared
\* return UnknownKey, call the port not at all and change nothing in memory,
\* also before any reload.
C8_UnknownKey ==
    \A t \in Tasks :
        (/\ (Returned(t, "update") \/ Returned(t, "history"))
         /\ task[t].key \notin KeySet) =>
            /\ task[t].result = "UnknownKey"
            /\ task[t].calls = <<>>
            /\ feattles_struct = task[t].pre.feattles_struct
            /\ last_reload = task[t].pre.last_reload
            /\ current_values = task[t].pre.current_values

\* C8 witness: history() then update() of an undeclared key, never reloaded
C8_Witness ==
    \E t \in Tasks :
        /\ Returned(t, "update")
        /\ task[t].key = UndeclaredKey
        /\ task[t].result = "UnknownKey"
        /\ last_reload = Never
        /\ task[t].prev.op = "history"
        /\ task[t].prev.key = UndeclaredKey
        /\ task[t].prev.result = "UnknownKey"

\* C9: while no reload() has succeeded, update() of a declared key returns
\* NeverReloaded whatever the value, calls the port not at all and leaves
\* every flag's value and provenance unchanged.
C9_NeverReloaded ==
    \A t \in Tasks :
        (/\ Returned(t, "update")
         /\ task[t].key \in KeySet
         /\ task[t].pre.last_reload = Never) =>
            /\ task[t].result = "NeverReloaded"
            /\ task[t].calls = <<>>
            /\ feattles_struct = task[t].pre.feattles_struct

\* C9 witness: after a reload that failed, an update with an unparsable value
C9_Witness ==
    \E t \in Tasks :
        /\ Returned(t, "update")
        /\ task[t].key \in KeySet
        /\ ~try_from_json(task[t].value).ok
        /\ task[t].result = "NeverReloaded"
        /\ task[t].prev.op = "reload"
        /\ task[t].prev.result = "PortError"

C11_NoProvenanceMeansDefault ==
    \A k \in KeySet :
        LET d == FeattleDefinition(k, feattles_struct[k])
        IN  (d.modified_at = None /\ d.modified_by = None) =>
                d.value = d.default

\* C11 happens: an update put a value other than the
\* default in memory and was rolled back to a record without provenance.
C11_Witness ==
    \E t \in Tasks :
        /\ Returned(t, "update")
        /\ task[t].result = "Persistence"
        /\ try_from_json(task[t].value).ok
        /\ try_from_json(task[t].value).val # Default(task[t].key)
        /\ task[t].old_value = None
        /\ FeattleDefinition(task[t].key,
                             feattles_struct[task[t].key]).modified_at = None

\* C12 (as claimed): whenever last_reload() is NoData, every flag carries its
\* default value.
C12_NoDataMeansDefaults ==
    last_reload.tag = "NoData" =>
        \A k \in KeySet : feattles_struct[k].value = Default(k)

\* C13: in every reachable state last_reload() is Never exactly when
\* current_values() is None, and then every flag carries its default value
\* with no provenance; a newly constructed registry is in that state.
C13_NeverMeansNoSnapshot ==
    /\ (last_reload = Never) <=> (current_values = None)
    /\ last_reload = Never =>
           \A k \in KeySet : feattles_struct[k] = FeattleNew(k)
    /\ (now = 0 /\ \A t \in Tasks : task[t] = IdleTask) => last_reload = Never

\* C13 happens: calls have been made on a registry that never reloaded: a
\* reload whose load failed and an update refused with NeverReloaded.
C13_Witness ==
    /\ last_reload = Never
    /\ \E t \in Tasks :
           /\ Returned(t, "update")
           /\ task[t].prev.op = "reload"
           /\ task[t].prev.result = "PortError"

\* the update of slot t has applied its value in memory and has neither
\* persisted the new snapshot nor started to roll back
Applied(t) ==
    /\ task[t].op = "update"
    /\ task[t].pc \in {"u_load_history", "u_definition", "u_save_history",
                        "u_save_current"}

\* C14 (as claimed): while update(k, v, who) is between its in-memory apply
\* and its return, k's in-memory value is already v although the persisted
\* snapshot does not hold the new entry; if the update then fails, k's
\* in-memory value once the update has returned is the previous one again.
C14_VisibleBeforePersistedThenRolledBack ==
    \A t \in Tasks :
        /\ Applied(t) =>
               /\ feattles_struct[task[t].key].value =
                      try_from_json(task[t].value).val
               /\ \/ stored_current = None
                  \/ stored_current.feattles[task[t].key] # task[t].new_value
        /\ (Returned(t, "update") /\ task[t].result = "Persistence") =>
               feattles_struct[task[t].key].value =
                   task[t].pre.feattles_struct[task[t].key].value

\* the first half of C14 alone
C14_VisibleBeforePersisted ==
    \A t \in Tasks :
        Applied(t) =>
            /\ feattles_struct[task[t].key].value =
                   try_from_json(task[t].value).val
            /\ \/ stored_current = None
               \/ stored_current.feattles[task[t].key] # task[t].new_value

\* the history entry that the update of slot t appends
EntryOf(t) ==
    HistoryEntry(task[t].value, overview(try_from_json(task[t].value).val),
                 task[t].new_value.modified_at, task[t].new_value.modified_by)

\* two update() calls on different keys overlapped and both have returned Ok;
\* the second task made no other call, so that nothing else overlapped them
OverlappedOk(t, o) ==
    /\ Returned(t, "update") /\ task[t].result = "Ok"
    /\ Returned(o, "update") /\ task[o].result = "Ok"
    /\ task[t].key # task[o].key
    /\ t = 1 /\ o = 2
    /\ task[t].new_value.modified_at < task[o].new_value.modified_at
    /\ task[o].prev = NoCall

\* C15: if two update() calls on different keys overlap, in any
\* interleaving, and both return Ok, then each key's in-memory value and
\* provenance are those of its own update and each key's persisted history
\* has gained exactly the entry of its own update.
C15_OverlappingUpdatesOfDifferentKeys ==
    \A t, o \in Tasks :
        OverlappedOk(t, o) =>
            \A u \in {t, o} :
                LET k == task[u].key
                IN  /\ feattles_struct[k] = RecordOf(k, task[u].new_value)
                    /\ HistoryContent(stored_history[k]) =
                           Append(HistoryContent(task[u].pre.stored_history[k]),
                                  EntryOf(u))

\* C15 happens: both updates returned Ok and the one that started first
\* saved its snapshot last.
C15_Witness ==
    \E t, o \in Tasks :
        /\ OverlappedOk(t, o)
        /\ stored_current.feattles[task[o].key] # task[o].new_value

\* the step is a call of slot t to the persistence port
PortCallStep(t) ==
    /\ task'[t].calls # task[t].calls
    /\ task'[t].calls # <<>>

HasEntryOf(t) ==
    LET entries == HistoryContent(stored_history[task[t].key])
    IN  \E i \in 1..Len(entries) :
            /\ entries[i].value = task[t].value
            /\ entries[i].modified_by = task[t].new_value.modified_by
            /\ entries[i].modified_at = task[t].new_value.modified_at

\* C17 (as claimed): in any execution, overlapping update() calls on the same
\* key included, the persisted history of a key is append-only: a successful
\* update(k, v, who) adds one entry with value v and modified_by who, and the
\* entry of a successful update is never removed afterwards. Hence the
\* history of k holds the entry of every update of k that has returned Ok.
C17_HistoryKeepsSuccessfulEntries ==
    \A t \in Tasks :
        (Returned(t, "update") /\ task[t].result = "Ok") => HasEntryOf(t)

\* a reload() of slot t has returned Ok: the one in progress or the one before
ReloadedOk(t) ==
    \/ Returned(t, "reload") /\ task[t].result = "Ok"
    \/ task[t].prev.op = "reload" /\ task[t].prev.result = "Ok"

\* C18: starting from a new registry, after any number of reload() calls
\* against a port whose load_current always returns nothing stored, every
\* flag has its default value, last_reload() is NoData and current_values()
\* is the empty snapshot with version 0. (Loads that fail are let in as
\* well: they change nothing.)
C18_ReloadsOfEmptyStorage ==
    /\ \A k \in KeySet : feattles_struct[k].value = Default(k)
    /\ last_reload.tag \in {"Never", "NoData"}
    /\ current_values # None =>
           /\ current_values.version = 0
           /\ current_values.feattles = EmptyFeattles
    /\ (\E t \in Tasks : ReloadedOk(t)) =>
           /\ last_reload.tag = "NoData"
           /\ current_values # None

\* C18 happens: a reload has returned after another one had.
C18_Witness ==
    \E t \in Tasks :
        /\ Returned(t, "reload")
        /\ task[t].pre.last_reload.tag = "NoData"
        /\ last_reload.reload_date > task[t].pre.last_reload.reload_date

\* C19: keys() is the fixed list of the declared flag names in declaration
\* order; in every registry state definition(key) is Some exactly for the
\* keys of keys() and definitions() returns exactly one definition per key,
\* in that order.
C19_KeysAndDefinitions ==
    /\ keys = <<"a", "b">>
    /\ \A i, j \in 1..Len(keys) : keys[i] = keys[j] => i = j
    /\ \A key \in AllKeys :
           definition(feattles_struct, key) # None <=>
               \E i \in 1..Len(keys) : keys[i] = key
    /\ Len(definitions(feattles_struct)) = Len(keys)
    /\ \A i \in 1..Len(keys) :
           /\ definitions(feattles_struct)[i].key = keys[i]
           /\ definitions(feattles_struct)[i] =
                  FeattleDefinition(keys[i], feattles_struct[keys[i]])

\* C19 happens: the definitions are those of a registry whose flags have been
\* changed, and an undeclared key has none.
C19_Witness ==
    /\ \A i \in 1..Len(keys) :
           /\ definitions(feattles_struct)[i].modified_at # None
           /\ definitions(feattles_struct)[i].value #
                  definitions(feattles_struct)[i].default
    /\ definition(feattles_struct, UndeclaredKey) = None

\* C20 (as claimed): for every supported value type T (bool, each integer
\* type, string, enum, Vec, BTreeSet, BTreeMap, Option and their nestings)
\* and every value v of T, try_from_json(as_json(v)) succeeds and returns v.
C20_RoundTrip ==
    \A t \in Tasks :
        task[t].pc = "c_parsed" => task[t].parsed = Ok(task[t].value)

\* v has a JSON form that reads back as v: no integer in it is above
\* i64::MAX and no Some(..) in it holds a value whose JSON form is null
RECURSIVE Representable(_, _)
Representable(T, v) ==
    CASE T.kind = "int" -> WideLeq(v, IntMax("i64"))
      [] T.kind = "vec" ->
            \A i \in 1..Len(v.list) : Representable(T.of, v.list[i])
      [] T.kind = "set" -> \A x \in v.set : Representable(T.of, x)
      [] T.kind = "map" -> \A k \in DOMAIN v.map : Representable(T.of, v.map[k])
      [] T.kind = "option" ->
            \/ v = None
            \/ /\ FeattleValue_as_json(T.of, v.some) # JNull
               /\ Representable(T.of, v.some)
      [] OTHER -> TRUE

\* what holds of C20: the round trip returns v exactly for the values that
\* hold no u64 / usize above i64::MAX and no Some(None)
C20_RoundTripWhereRepresentable ==
    \A t \in Tasks :
        task[t].pc = "c_parsed" =>
            (task[t].parsed = Ok(task[t].value) <=>
                 Representable(task[t].type, task[t].value))

\* the integer type ty can represent the integer n exactly
InRange(ty, n) == WideLeq(IntMin(ty), n) /\ WideLeq(n, IntMax(ty))

\* the JSON value is a number written as an integer
IsInteger(value) == value.kind = "Number" /\ ~IsFloat(value)

\* C21 (as claimed): for every integer type T, try_from_json accepts a JSON
\* number exactly when it is an integer that T can represent exactly, and
\* then returns that integer; every other JSON value is rejected.
C21_IntegerAcceptedIffInRange ==
    \A t \in Tasks :
        (task[t].pc = "c_parsed" /\ task[t].type.kind = "int") =>
            IF IsInteger(task[t].json) /\ InRange(task[t].type.name, task[t].json.num)
            THEN task[t].parsed = Ok(task[t].json.num)
            ELSE ~task[t].parsed.ok

\* what holds of C21: the integer is accepted exactly when T can represent it
\* and it is not above i64::MAX
C21_IntegerAcceptedIffInRangeOfI64 ==
    \A t \in Tasks :
        (task[t].pc = "c_parsed" /\ task[t].type.kind = "int") =>
            IF /\ IsInteger(task[t].json)
               /\ InRange(task[t].type.name, task[t].json.num)
               /\ WideLeq(task[t].json.num, IntMax("i64"))
            THEN task[t].parsed = Ok(task[t].json.num)
            ELSE ~task[t].parsed.ok

\* the JSON kind (Null, Bool, Number, String, Array, Object) of the value is
\* the kind that T is written as
RECURSIVE KindMatches(_, _)
KindMatches(T, value) ==
    CASE T.kind = "bool" -> value.kind = "Bool"
      [] T.kind \in {"int", "f32", "f64"} -> value.kind = "Number"
      [] T.kind \in {"string", "enum"} -> value.kind = "String"
      [] T.kind \in {"vec", "set"} -> value.kind = "Array"
      [] T.kind = "map" -> value.kind = "Object"
      [] T.kind = "option" -> value.kind = "Null" \/ KindMatches(T.of, value)

\* the same of the value and of every value in it
RECURSIVE KindMatchesDeep(_, _)
KindMatchesDeep(T, value) ==
    /\ KindMatches(T, value)
    /\ CASE T.kind \in {"vec", "set"} ->
                \A i \in 1..Len(value.items) : KindMatchesDeep(T.of, value.items[i])
          [] T.kind = "map" ->
                \A name \in DOMAIN value.fields :
                    KindMatchesDeep(T.of, value.fields[name])
          [] T.kind = "option" ->
                value.kind = "Null" \/ KindMatchesDeep(T.of, value)
          [] OTHER -> TRUE

\* C22 (as claimed): try_from_json fails with WrongKind when the JSON value's
\* kind does not match the expected kind, and with ParseError when the kind
\* matches but the content is invalid (unknown enum variant, integer out of
\* the target type's range, loss of precision narrowing an f64 to f32).
C22_WrongKindOrParseError ==
    \A t \in Tasks :
        task[t].pc = "c_parsed" =>
            /\ ~KindMatches(task[t].type, task[t].json) =>
                   task[t].parsed = WrongKind
            /\ (~task[t].parsed.ok /\ KindMatchesDeep(task[t].type, task[t].json)) =>
                   task[t].parsed = ParseError

\* the value is of the JSON kind, and a number is of the kind of number, that
\* T is read from: an integer up to i64::MAX for the integer types
\* ("Number::i64"), a number that an f32 holds exactly for f32
\* ("Number::f32"), any number for f64
RECURSIVE NumberKindMatches(_, _)
NumberKindMatches(T, value) ==
    /\ KindMatches(T, value)
    /\ CASE T.kind = "int" ->
                IsInteger(value) /\ WideLeq(value.num, IntMax("i64"))
          [] T.kind = "f32" ->
                FloatEq(extract_f64(value).val,
                        f32_as_f64(f64_as_f32(extract_f64(value).val)))
          [] T.kind = "option" ->
                value.kind = "Null" \/ NumberKindMatches(T.of, value)
          [] OTHER -> TRUE

\* the same of the value and of every value in it
RECURSIVE NumberKindMatchesDeep(_, _)
NumberKindMatchesDeep(T, value) ==
    /\ NumberKindMatches(T, value)
    /\ CASE T.kind \in {"vec", "set"} ->
                \A i \in 1..Len(value.items) :
                    NumberKindMatchesDeep(T.of, value.items[i])
          [] T.kind = "map" ->
                \A name \in DOMAIN value.fields :
                    NumberKindMatchesDeep(T.of, value.fields[name])
          [] T.kind = "option" ->
                value.kind = "Null" \/ NumberKindMatchesDeep(T.of, value)
          [] OTHER -> TRUE

\* C22 (amended): try_from_json fails with WrongKind when the JSON kind does
\* not match or the number is not of the kind of number expected (a float or
\* an integer above i64::MAX for an integer type, a number that an f32 does
\* not hold exactly for f32), and with ParseError when these match but the
\* content is invalid: an integer out of the target type's range, an unknown
\* enum variant.
C22_WrongKindByNumberKind ==
    \A t \in Tasks :
        task[t].pc = "c_parsed" =>
            LET T == task[t].type
                value == task[t].json
            IN  /\ ~NumberKindMatches(T, value) => task[t].parsed = WrongKind
                /\ (~task[t].parsed.ok /\ NumberKindMatchesDeep(T, value)) =>
                       task[t].parsed = ParseError
                /\ (NumberKindMatches(T, value) /\ T.kind = "int"
                        /\ ~InRange(T.name, value.num)) =>
                       task[t].parsed = ParseError
                /\ (NumberKindMatches(T, value) /\ T.kind = "enum"
                        /\ value.str \notin Variants) =>
                       task[t].parsed = ParseError

\* 0.1 has been read as an f32, and 256 as an u8
C22_Witness ==
    /\ task[1].pc = "c_parsed"
    /\ task[1].type = F32Type
    /\ task[1].json = JFloat(Float(FALSE, -4, 5033164, 429496730))
    /\ task[1].parsed = WrongKind

\* the texts joined by ", "
RECURSIVE JoinWithComma(_)
JoinWithComma(texts) ==
    IF Len(texts) = 0 THEN ""
    ELSE IF Len(texts) = 1 THEN texts[1]
    ELSE texts[1] \o ", " \o JoinWithComma(Tail(texts))

\* the items of the list or set held by slot t, in the order of its iterator
ItemsOf(t) ==
    IF task[t].type.kind = "vec" THEN task[t].value.list
    ELSE SetToSeq(task[t].type.of, task[t].value.set)

\* C23: the overview of a list or set with n elements shows the overviews of
\* all elements separated by ", " when n <= 3, and for n > 3 the overviews of
\* the first 3 elements followed by ", ... N more" with N = n - 3; so
\* [3,14,15,92,65,35] gives "[3, 14, 15, ... 3 more]".
C23_OverviewOfListOrSet ==
    \A t \in Tasks :
        (task[t].pc = "c_overview" /\ task[t].type.kind \in {"vec", "set"}) =>
            LET items == ItemsOf(t)
                n == Len(items)
                shown == [i \in 1..(IF n <= 3 THEN n ELSE 3) |->
                             FeattleValue_overview(task[t].type.of, items[i])]
            IN  /\ task[t].overview =
                       "[" \o JoinWithComma(shown)
                           \o (IF n <= 3 THEN ""
                               ELSE ", ... " \o ToString(n - 3) \o " more")
                           \o "]"
                /\ task[t].value = TestList =>
                       task[t].overview = "[3, 14, 15, ... 3 more]"

\* the overview of the list [3,14,15,92,65,35] has been taken
C23_Witness ==
    /\ task[1].pc = "c_overview"
    /\ task[1].type = VecType(IntType("i32"))
    /\ task[1].value = TestList
    /\ task[1].overview = "[3, 14, 15, ... 3 more]"

\* C24: the background sync starts the next reload() ok_interval after a
\* reload that succeeded and err_interval after a reload that failed (30 s
\* and 60 s by default), with the first reload done immediately by start().
C24_IntervalAfterReload ==
    /\ sync.bg_pc = "reload" =>
           sync.waited =
               IF sync.after_ok THEN sync.ok_interval ELSE sync.err_interval
    /\ ~sync.configured =>
           (sync.ok_interval = 30 /\ sync.err_interval = 60)
    /\ (sync.start_pc = "reload" /\ ~sync.slow) => sync.time = sync.called_at

\* with the default intervals, the task is making the reload that follows a
\* failed one, and it is not the first of the task
C24_Witness ==
    /\ ~sync.configured
    /\ sync.bg_pc = "reload"
    /\ task[2].pc = "r_apply"
    /\ ~sync.after_ok
    /\ sync.waited = 60
    /\ task[2].prev.op = "reload"

\* the polling task is no more: it ended, or start() did not spawn it
BgGone ==
    \/ sync.bg_pc = "ended"
    \/ sync.bg_pc = "unspawned" /\ sync.start_pc # "reload"

FirstReloadResult ==
    IF task[1].pc = "done" /\ task[1].op = "reload" THEN task[1].result
    ELSE IF task[1].prev.op = "reload" THEN task[1].prev.result
    ELSE "none"

\* C26: start() runs the first reload() to completion before returning and
\* returns that reload's error if it failed; the periodic background reloads
\* continue whether the first reload failed or not; if the feattles instance
\* is already dropped, start() returns None without reloading.
C26_StartReloadsFirst ==
    /\ sync.start_pc = "reload" => sync.start_result = "pending"
    /\ sync.start_pc = "returned" =>
           IF sync.dropped_at_call
           THEN /\ sync.start_result = "None"
                /\ FirstReloadResult = "none"
                /\ now = 0
                /\ sync.bg_pc = "unspawned"
           ELSE /\ FirstReloadResult \in {"Ok", "PortError"}
                /\ sync.start_result =
                       IF FirstReloadResult = "Ok" THEN "None" ELSE "Some"
                /\ sync.bg_pc # "unspawned"

\* start() returned the error of the first reload, and the task is making
\* its reload
C26_Witness ==
    /\ sync.start_pc = "returned"
    /\ sync.start_result = "Some"
    /\ FirstReloadResult = "PortError"
    /\ sync.bg_pc = "reload"
    /\ task[2].pc = "r_apply"

\* the last call that slot t made to the registry
LastCallOf(t) == IF task[t].pc = "done" THEN task[t].op ELSE task[t].prev.op

LastResultOf(t) ==
    IF task[t].pc = "done" THEN task[t].result ELSE task[t].prev.result

\* C27: edit_feattle and edit_feattle_api_v1 call reload() before update();
\* if that reload fails they return the Reload error and update() is not
\* called, so no flag value, snapshot or history changes.
C27_EditReloadsFirst ==
    /\ (panel.pc = "update" /\ task[1].pc # "idle" /\ task[1].op = "update") =>
           (task[1].prev.op = "reload" /\ task[1].prev.result = "Ok")
    /\ panel.pc = "responded" =>
           /\ panel.result = "Reload" =>
                  /\ LastCallOf(1) = "reload"
                  /\ LastResultOf(1) # "Ok"
                  /\ Observed = panel.pre
           /\ panel.result \in {"Ok", "Update"} => LastCallOf(1) = "update"
           /\ (LastCallOf(1) = "reload" /\ LastResultOf(1) # "Ok") =>
                  panel.result \in {"Reload", "Serialization"}

\* an edit was made, and the reload of the next edit failed
C27_Witness ==
    /\ panel.pc = "responded"
    /\ panel.result = "Reload"
    /\ task[1].pc = "done"
    /\ task[1].failed = <<"load_current">>
    /\ task[1].last_update # None

\* the step in which the reload of task t applies a snapshot it has loaded
AppliesSnapshot(t) ==
    /\ task[t].pc = "r_apply"
    /\ task[t].loaded # None
    /\ task'[t].pc = "done"

\* C28: after a reload() that loads a snapshot, every declared key that has
\* no entry in that snapshot has its default value and no provenance, even if
\* it was overridden in memory before the reload.
C28_ReloadResetsAbsentKeys ==
    [][\A t \in Tasks : AppliesSnapshot(t) =>
          /\ task'[t].result = "Ok"
          /\ \A k \in KeySet : task[t].loaded.feattles[k] = None =>
                 /\ feattles_struct'[k].value = Default(k)
                 /\ feattles_struct'[k].current_value = None]_vars

\* the reload of the second task has reset flag b, which the update in
\* progress of the first task had set in memory
C28_Witness ==
    /\ task[2].pc = "done"
    /\ task[2].op = "reload"
    /\ task[2].loaded # None
    /\ task[2].loaded.feattles["b"] = None
    /\ task[2].pre.feattles_struct["b"].value # Default("b")
    /\ task[2].pre.feattles_struct["b"].current_value # None
    /\ feattles_struct["b"] = FeattleNew("b")

\* the update() of slot t has returned the error of a persistence step
UpdateFailedAtPersistence(t) ==
    /\ task[t].pc = "done"
    /\ task[t].op = "update"
    /\ task[t].result = "Persistence"

\* the entry that the flag held before the update() of slot t does not parse
PriorEntryUnparsable(t) ==
    /\ task[t].old_value # None
    /\ ~try_from_json(task[t].old_value.value).ok

\* C29: if update(k, ...) fails at a persistence step and k's prior entry
\* does not parse, the rollback of the in-memory value is abandoned: after
\* the call returns, the in-memory value of k is the new value.
C29_RollbackAbandoned ==
    (UpdateFailedAtPersistence(1) /\ PriorEntryUnparsable(1)) =>
        feattles_struct[task[1].key].value =
            try_from_json(task[1].new_value.value).val

\* such an update that failed, for each of the three port calls that can
\* fail, with a new value that differs from the one held before
C29_Witness ==
    /\ UpdateFailedAtPersistence(1)
    /\ PriorEntryUnparsable(1)
    /\ task[1].failed # <<>>
    /\ feattles_struct[task[1].key].value #
           task[1].pre.feattles_struct[task[1].key].value

\* the update() of slot t has returned after its save_current failed
SaveCurrentFailed(t) ==
    /\ task[t].pc = "done"
    /\ task[t].op = "update"
    /\ \E i \in 1..Len(task[t].failed) : task[t].failed[i] = "save_current"

\* C30: if save_current fails in update(k, ...), update re-saves the
\* pre-append history of k through save_history, and it returns the
\* save_current error (Persistence) even when that re-save also fails.
C30_HistoryResavedAfterSaveCurrentFails ==
    SaveCurrentFailed(1) =>
        /\ task[1].calls =
               <<"load_history", "save_history", "save_current", "save_history">>
        /\ task[1].result = "Persistence"
        /\ task[1].old_history =
               unwrap_or_default(task[1].pre.stored_history[task[1].key])
        /\ task[1].failed = <<"save_current">> =>
               stored_history[task[1].key] = task[1].old_history
        /\ task[1].failed = <<"save_current", "save_history">> =>
               stored_history[task[1].key] = task[1].new_history

\* save_current failed and so did the save_history that followed it
C30_Witness ==
    /\ SaveCurrentFailed(1)
    /\ task[1].failed = <<"save_current", "save_history">>
    /\ task[1].result = "Persistence"

\* the port calls of a successful update, in their order
UpdatePortCalls == <<"load_history", "save_history", "save_current">>

\* C31: a successful update(k, ...) calls the persistence port exactly
\* load_history(k), then save_history(k), then save_current, once each and in
\* that order; if load_history or save_history fails, no later port call is
\* made by that update.
C31_PortCallsOfUpdate ==
    \A t \in Tasks :
        (task[t].pc = "done" /\ task[t].op = "update") =>
            /\ task[t].result = "Ok" =>
                   /\ task[t].calls = UpdatePortCalls
                   /\ task[t].failed = <<>>
                   /\ \A k \in AllKeys \ {task[t].key} :
                          stored_history[k] = task[t].pre.stored_history[k]
                   /\ stored_history[task[t].key] = task[t].new_history
            /\ (task[t].failed # <<>> /\ task[t].failed[1] = "load_history") =>
                   task[t].calls = <<"load_history">>
            /\ (task[t].failed # <<>> /\ task[t].failed[1] = "save_history") =>
                   task[t].calls = <<"load_history", "save_history">>

\* an update succeeded and the next one has returned after its save_history
\* failed
C31_Witness ==
    /\ task[1].pc = "done"
    /\ task[1].op = "update"
    /\ task[1].failed = <<"save_history">>
    /\ task[1].prev.op = "update"
    /\ task[1].prev.result = "Ok"

\* C32: after reload() loads a snapshot, current_values() equals that
\* snapshot verbatim, including entries for keys that are not declared; a
\* following successful update(k, ...) persists a snapshot in which every
\* entry other than k's, declared or not, is unchanged.
C32_SnapshotKeptVerbatim ==
    /\ (task[1].pc = "done" /\ task[1].op = "reload" /\ task[1].result = "Ok"
           /\ task[1].loaded # None) =>
           /\ current_values = task[1].loaded
           /\ current_values = stored_current
    /\ (task[1].pc = "done" /\ task[1].op = "update" /\ task[1].result = "Ok") =>
           /\ stored_current # None
           /\ \A k \in AllKeys \ {task[1].key} :
                  stored_current.feattles[k] =
                      task[1].pre.current_values.feattles[k]
           /\ stored_current.feattles[task[1].key] = task[1].new_value

\* an update has succeeded right after the reload of a snapshot that holds an
\* entry for a key that is not declared
C32_Witness ==
    /\ task[1].pc = "done"
    /\ task[1].op = "update"
    /\ task[1].result = "Ok"
    /\ task[1].prev.op = "reload"
    /\ task[1].prev.result = "Ok"
    /\ task[1].pre.stored_current = task[1].pre.current_values
    /\ task[1].pre.current_values.feattles[UndeclaredKey] # None
    /\ stored_current.feattles[UndeclaredKey] # None

\* the step is one of the update() of task t: its start, a port call, a lock
\* section or a rollback
UpdateStepOf(t) == task'[t] # task[t] /\ task'[t].op = "update"

\* C33: update(k, ...), whether it succeeds or fails, never changes the
\* in-memory value or provenance of any flag other than k.
C33_UpdateTouchesOnlyItsFlag ==
    [][\A t \in Tasks : UpdateStepOf(t) =>
          \A k \in KeySet \ {task'[t].key} :
              feattles_struct'[k] = feattles_struct[k]]_vars

\* updates of flag b have succeeded and failed while flag a kept the entry
\* that the reload gave it
C33_Witness ==
    /\ task[1].pc = "done"
    /\ task[1].op = "update"
    /\ task[1].key = "b"
    /\ task[1].result = "Persistence"
    /\ task[1].prev.op = "update"
    /\ task[1].prev.key = "b"
    /\ task[1].prev.result = "Ok"
    /\ feattles_struct["a"].current_value # None
    /\ feattles_struct["a"].value # Default("a")

\* the step is the write-lock section of a reload()
ReloadStep == \E t \in Tasks : task[t].pc = "r_apply" /\ task'[t].pc = "done"

\* C34: last_reload() changes only inside reload(): update(), history(),
\* definition() and definitions() never change it, so after a successful
\* update it still reports the version loaded by the last reload while
\* current_values() holds the incremented version.
C34_LastReloadOnlyByReload ==
    /\ [][last_reload' # last_reload => ReloadStep]_vars
    /\ [](\A t \in Tasks :
            (task[t].pc = "done" /\ task[t].op = "update"
               /\ task[t].result = "Ok") =>
               /\ last_reload = task[t].pre.last_reload
               /\ current_values.version =
                      task[t].pre.current_values.version + 1
               /\ last_reload.tag = "Data" =>
                      last_reload.version < current_values.version)

\* an update has succeeded after the reload of a stored snapshot: last_reload
\* reports the version loaded, current_values the next one
C34_Witness ==
    /\ task[1].pc = "done"
    /\ task[1].op = "update"
    /\ task[1].result = "Ok"
    /\ last_reload.tag = "Data"
    /\ last_reload.version = task[1].pre.current_values.version
    /\ current_values.version = last_reload.version + 1

\* C35: in every persisted snapshot, `date` is when that version was
\* created: the snapshot saved by a successful update(k, ...) carries the time
\* of that update as its date, not the date of the version it was derived
\* from.
C35_SnapshotDateIsUpdateTime ==
    (task[1].pc = "done" /\ task[1].op = "update" /\ task[1].result = "Ok") =>
        stored_current.date = task[1].new_value.modified_at

\* what update() does: the saved snapshot keeps the date of the snapshot it
\* was cloned from
C35_SnapshotDateIsInherited ==
    (task[1].pc = "done" /\ task[1].op = "update" /\ task[1].result = "Ok") =>
        /\ stored_current.date = task[1].pre.current_values.date
        /\ stored_current.date < task[1].new_value.modified_at

\* the overview of the value that a history entry records
OverviewOfEntry(entry) == overview(try_from_json(entry.value).val)

\* C36: the history entry appended by update(k, v, who) carries as
\* value_overview the overview of the value v it records, in any interleaving
\* with other update() or reload() calls.
C36_EntryOverviewIsOfItsValue ==
    \A t \in Tasks :
        task[t].pc \in {"u_save_history", "u_save_current", "u_commit"} =>
            LET entry == task[t].new_history.entries[Len(task[t].new_history.entries)]
            IN  /\ entry.value = task[t].value
                /\ entry.value_overview = OverviewOfEntry(entry)

\* two update() calls on different keys, both derived from the same
\* current values, have both returned Ok
TwoUpdatesOfOneVersion ==
    /\ \A t \in Tasks :
           task[t].pc = "done" /\ task[t].op = "update" /\ task[t].result = "Ok"
    /\ task[1].key # task[2].key
    /\ task[1].pre.current_values = task[2].pre.current_values

\* C37: there is an interleaving of two update() calls on different keys,
\* both returning Ok, after which the persisted snapshot is the later saver's
\* only (last-write-wins): its version is 1 higher than before the two calls,
\* not 2, and the new entry of the other key is absent from it.
C37_LastSaverWins ==
    TwoUpdatesOfOneVersion =>
        \E t \in Tasks, u \in Tasks :
            /\ u # t
            /\ stored_current = task[t].new_values
            /\ stored_current.version = task[t].pre.current_values.version + 1
            /\ stored_current.feattles[task[t].key] = task[t].new_value
            /\ stored_current.feattles[task[u].key] # task[u].new_value
            /\ stored_current.feattles[task[u].key] =
                   task[u].pre.current_values.feattles[task[u].key]

\* the interleaving: the first task saved last, and the entry that the second
\* task wrote for b is not in the persisted snapshot
C37_Witness ==
    /\ TwoUpdatesOfOneVersion
    /\ task[1].key = "a"
    /\ task[2].key = "b"
    /\ stored_current = task[1].new_values
    /\ stored_current.feattles["b"] = None
    /\ feattles_struct["b"].current_value = task[2].new_value

\* no update() of the other task has run or is running
NoOtherUpdate(t) ==
    \A u \in Tasks \ {t} :
        /\ task[u].op # "update"
        /\ task[u].prev.op # "update"
        /\ task[u].last_update = None

\* C38: if update(k, v, who) returns Ok and no other update touches k, then
\* at the moment it returns the in-memory value of k is v, even when a
\* reload() ran between that update's in-memory apply and its commit.
C38_ValueAfterOkUpdate ==
    \A t \in Tasks :
        (task[t].pc = "done" /\ task[t].op = "update" /\ task[t].result = "Ok"
           /\ NoOtherUpdate(t)) =>
            /\ feattles_struct[task[t].key].value =
                   try_from_json(task[t].value).val
            /\ feattles_struct[task[t].key].current_value = task[t].new_value

\* C39: if an update U1 on key k fails at a persistence step while an
\* overlapping update U2 on the same key succeeds, then after both have
\* returned the in-memory value and provenance of k are those written by U2:
\* the rollback of U1 never overwrites the result of another update.
C39_RollbackKeepsOtherUpdate ==
    \A t \in Tasks, u \in Tasks :
        (/\ t # u
         /\ task[t].pc = "done" /\ task[t].op = "update"
         /\ task[t].result = "Persistence"
         /\ task[u].pc = "done" /\ task[u].op = "update"
         /\ task[u].result = "Ok"
         /\ task[u].key = task[t].key) =>
            /\ feattles_struct[task[u].key].current_value = task[u].new_value
            /\ feattles_struct[task[u].key].value =
                   try_from_json(task[u].value).val

\* the entry of key k in current_values() and the provenance that
\* definition(k) reports agree
ProvenanceAgrees(k) ==
    LET entry == current_values.feattles[k]
        d == definition(feattles_struct, k).some
    IN  /\ (entry # None) <=> (d.modified_by # None)
        /\ entry # None =>
               /\ d.modified_at = [some |-> entry.modified_at]
               /\ d.modified_by = [some |-> entry.modified_by]

\* C40: in every state where no reload() or update() is in progress and at
\* least one reload has succeeded (operations run one after another), for
\* every declared key k: k has an entry in current_values() exactly when
\* definition(k) reports a modified_by, and then both carry the same
\* modified_at and modified_by.
C40_ProvenanceMatchesCurrentValues ==
    (task[1].pc \in {"idle", "done"} /\ current_values # None) =>
        \A k \in KeySet : ProvenanceAgrees(k)

\* the same, except where the record of a flag holds an entry that does not
\* parse and that current_values() does not hold: one that update() rejected
C40_ProvenanceMatchesUnlessParsing ==
    (task[1].pc \in {"idle", "done"} /\ current_values # None) =>
        \/ \A k \in KeySet : ProvenanceAgrees(k)
        \/ \E k \in KeySet :
              /\ feattles_struct[k].current_value # None
              /\ ~try_from_json(feattles_struct[k].current_value.value).ok
              /\ feattles_struct[k].current_value # current_values.feattles[k]

====
